---- MODULE Spec2Model ----
(***************************************************************************)
(* plhwtools: the power command and its sequencing procedures (run_power,  *)
(* power_on_seq0, power_off_seq0, the STEP macro), the EEPROM transfer     *)
(* engine (rw_file_eeprom, pad_eeprom) together with the SIGINT abort      *)
(* flag, the EEPROM self-test, and the cpld and max17135 timings commands. *)
(* The device libraries (cpld, max17135, dac5820, eeprom) and the stream   *)
(* calls read and write are the environment: each call returns a result    *)
(* chosen from a small set.                                                *)
(***************************************************************************)
EXTENDS Integers, Sequences, FiniteSets, TLC

VARIABLES
    ctx,        \* struct ctx: device -> TRUE when the handle is non-NULL
    cpld_sw,    \* switch bank: line -> 0/1
    dac_val,    \* DAC channel A output register
    dac_pow,    \* DAC channel A power mode
    pw_pc,      \* "idle" | "steps" | "returned" | "crashed"
    pw_op,      \* "none" | "on" | "off"
    pw_step,    \* index of the next STEP of the running procedure
    pw_vcom,    \* the vcom argument of power_on_seq0
    pw_ret,     \* value returned by the procedure
    pw_calls,   \* device primitives invoked by the running procedure
    pw_log,     \* lines logged by STEP: <<label, "ok" | "failed (ERROR)">>
    pw_out,     \* what each invoked primitive did: "ok" | "fail" | "crash"
    pw_dev0,    \* the device registers when the procedure was entered
    hnd,        \* per device, how often this process has obtained a handle
                \* from its _init (inits) and passed one to its _free (frees);
                \* cleaned: main's clean-up has run
    pw_arg,     \* run_power: its argv, whether plain char is signed in this
                \* build, the sequence it resolved and the lines it logged
    g_abort,    \* the abort flag set by the SIGINT handler
    x_pc,       \* "idle" | "loop" | "body" | "pad" | "done"
    x_opt,      \* struct eeprom_opt: data_size, skip, zero_padding; given is
                \* the data_size option as parsed, before run_eeprom resolves it
    write_file, \* 1: EEPROM to file (e2f), 0: file to EEPROM (f2e)
    left,       \* rw_file_eeprom: bytes left
    pad_left,   \* pad_eeprom: bytes left
    x_ret,      \* rw_file_eeprom: ret, the value returned
    e_pos,      \* EEPROM seek position
    e_writes,   \* successful EEPROM writes: [off, len, kind, from]
    sink,       \* bytes accepted by the output file: [off, len] of EEPROM data
    src_len,    \* length of the input stream
    src_pos,    \* bytes of the input stream consumed so far
    x_calls,    \* chunk I/O calls issued: [op, off, len, res]
    x_prog,     \* progress reports: [msg, percent, prog, total]
    x_stop,     \* why the transfer loop was left
    x_chunks,   \* main-loop iterations completed
    x_late,     \* an EEPROM write began an iteration that started with g_abort set
    sig_pc,     \* where the transfer was when SIGINT arrived ("none" before)
    sig_chunks, \* main-loop iterations completed when SIGINT arrived
    rw,         \* the eeprom full_rw command: the answer to its prompt, the
                \* locals of full_rw_eeprom, the EEPROM calls it made, the
                \* lines it logged, and the stdin terminal (term)
    cmd         \* a single-shot command (cpld, max17135 timings): its
                \* arguments, the primitives it invoked and its result

pvars == <<ctx, cpld_sw, dac_val, dac_pow, pw_pc, pw_op, pw_step, pw_vcom,
           pw_ret, pw_calls, pw_log, pw_out, pw_dev0, pw_arg, hnd>>

xvars == <<g_abort, x_pc, x_opt, write_file, left, pad_left, x_ret, e_pos,
           e_writes, sink, src_len, src_pos, x_calls, x_prog, x_stop,
           x_chunks, x_late, sig_pc, sig_chunks>>

svars == <<rw>>

cvars == <<cmd>>

vars == <<pvars, xvars, svars, cvars>>

(***************************************************************************)
(* Power sequencing                                                        *)
(***************************************************************************)

CpldLines == {"CPLD_HVEN", "CPLD_COM_SW_EN", "CPLD_COM_SW_CLOSE",
              "CPLD_COM_PSU", "CPLD_BPCOM_CLAMP"}

DacPowModes == {"DAC5820_POW_ON", "DAC5820_POW_OFF_FLOAT",
                "DAC5820_POW_OFF_1K", "DAC5820_POW_OFF_100K"}

DAC_CH == "DAC5820_CH_A"

DAC_ON == "DAC5820_POW_ON"

DAC_OFF_floating == "DAC5820_POW_OFF_FLOAT"

DAC_OFF == "DAC5820_POW_OFF_100K"

\* Results a device primitive can return: negative is failure.
Results == {-2, -1, 0, 1}

\* vcom values handed to power_on_seq0 (a char holding 0..255).
VcomValues == {0, 128, 255}

Devices == {"cpld", "max17135", "dac"}

\* One device primitive call: cpld_set_switch(cpld, a1, val),
\* max17135_wait_for_pok(max17135), dac5820_output(dac, a1, val),
\* dac5820_set_power(dac, a1, mode).
Call(prim, a1, val, mode) == [prim |-> prim, a1 |-> a1, val |-> val, mode |-> mode]

Step(prim, a1, val, mode, msg) ==
    [call |-> Call(prim, a1, val, mode), msg |-> msg]

\* The device handle a primitive is called with.
HandleOf(prim) ==
    CASE prim = "cpld_set_switch"       -> "cpld"
      [] prim = "max17135_wait_for_pok" -> "max17135"
      [] prim = "dac5820_output"        -> "dac"
      [] prim = "dac5820_set_power"     -> "dac"

power_on_seq0_dac_first(vcom) == <<
    Step("cpld_set_switch", "CPLD_BPCOM_CLAMP", 1, "-", "BPCOM clamp"),
    Step("cpld_set_switch", "CPLD_HVEN", 1, "-", "HV enable"),
    Step("max17135_wait_for_pok", "-", 0, "-", "wait for POK"),
    Step("cpld_set_switch", "CPLD_COM_SW_CLOSE", 0, "-", "COM open"),
    Step("cpld_set_switch", "CPLD_COM_SW_EN", 1, "-", "COM enable"),
    Step("cpld_set_switch", "CPLD_COM_PSU", 1, "-", "COM PSU on"),
    Step("dac5820_set_power", DAC_CH, 0, DAC_ON, "DAC power on"),
    Step("dac5820_output", "DAC5820_CH_A", vcom, "-", "VCOM DAC value"),
    Step("cpld_set_switch", "CPLD_COM_SW_CLOSE", 1, "-", "COM close") >>

power_on_seq0_pok_first(vcom) == <<
    Step("cpld_set_switch", "CPLD_BPCOM_CLAMP", 1, "-", "BPCOM clamp"),
    Step("max17135_wait_for_pok", "-", 0, "-", "wait for POK"),
    Step("cpld_set_switch", "CPLD_HVEN", 1, "-", "HV enable"),
    Step("cpld_set_switch", "CPLD_COM_SW_CLOSE", 0, "-", "COM open"),
    Step("cpld_set_switch", "CPLD_COM_SW_EN", 1, "-", "COM enable"),
    Step("cpld_set_switch", "CPLD_COM_PSU", 1, "-", "COM PSU on"),
    Step("dac5820_output", "DAC5820_CH_A", vcom, "-", "VCOM DAC value"),
    Step("dac5820_set_power", DAC_CH, 0, DAC_ON, "DAC power on"),
    Step("cpld_set_switch", "CPLD_COM_SW_CLOSE", 1, "-", "COM close") >>

\* The STEP list of power_on_seq0, in program order.
power_on_seq0(vcom) == <<
    Step("cpld_set_switch", "CPLD_BPCOM_CLAMP", 1, "-", "BPCOM clamp"),
    Step("cpld_set_switch", "CPLD_HVEN", 1, "-", "HV enable"),
    Step("max17135_wait_for_pok", "-", 0, "-", "wait for POK"),
    Step("cpld_set_switch", "CPLD_COM_SW_CLOSE", 0, "-", "COM open"),
    Step("cpld_set_switch", "CPLD_COM_SW_EN", 1, "-", "COM enable"),
    Step("cpld_set_switch", "CPLD_COM_PSU", 1, "-", "COM PSU on"),
    Step("dac5820_output", "DAC5820_CH_A", vcom, "-", "VCOM DAC value"),
    Step("dac5820_set_power", DAC_CH, 0, DAC_ON, "DAC power on"),
    Step("cpld_set_switch", "CPLD_COM_SW_CLOSE", 1, "-", "COM close") >>

power_off_seq0_mirrored == <<
    Step("cpld_set_switch", "CPLD_COM_SW_CLOSE", 0, "-", "COM open"),
    Step("cpld_set_switch", "CPLD_COM_SW_EN", 0, "-", "COM disable"),
    Step("dac5820_set_power", DAC_CH, 0, DAC_OFF, "DAC power off"),
    Step("cpld_set_switch", "CPLD_COM_PSU", 0, "-", "COM PSU off"),
    Step("cpld_set_switch", "CPLD_HVEN", 0, "-", "HV disable"),
    Step("cpld_set_switch", "CPLD_BPCOM_CLAMP", 0, "-", "BPCOM clamp") >>

\* The STEP list of power_off_seq0, in program order.
power_off_seq0 == <<
    Step("cpld_set_switch", "CPLD_COM_SW_CLOSE", 0, "-", "COM open"),
    Step("cpld_set_switch", "CPLD_COM_SW_EN", 0, "-", "COM disable"),
    Step("dac5820_set_power", DAC_CH, 0, DAC_OFF, "DAC power off"),
    Step("cpld_set_switch", "CPLD_COM_PSU", 0, "-", "COM PSU off"),
    Step("cpld_set_switch", "CPLD_HVEN", 0, "-", "HV disable") >>

\* The handles each procedure requires, and those it checks against NULL.
Required(op) == IF op = "on" THEN {"cpld", "max17135", "dac"}
                             ELSE {"cpld", "dac"}

NullChecked(op) == IF op = "on" THEN {"cpld", "max17135"} ELSE {"cpld"}

StepsOf(op, vcom) == IF op = "on" THEN power_on_seq0(vcom)
                                  ELSE power_off_seq0

STEP_keep_going(res, msg) ==
    [stop |-> FALSE,
     line |-> <<msg, IF res < 0 THEN "failed (ERROR)" ELSE "ok">>,
     ret  |-> res]

STEP_mislabel(res, msg) ==
    [stop |-> res < 0,
     line |-> <<msg, "ok">>,
     ret  |-> res]

\* The STEP macro: log the outcome, return res from the procedure when res < 0.
STEP(res, msg) ==
    [stop |-> res < 0,
     line |-> <<msg, IF res < 0 THEN "failed (ERROR)" ELSE "ok">>,
     ret  |-> res]

\* Device registers after a primitive that took effect.
Written(dev, c) ==
    CASE c.prim = "cpld_set_switch" ->
             [dev EXCEPT !.sw = [@ EXCEPT ![c.a1] = c.val]]
      [] c.prim = "dac5820_output" ->
             [dev EXCEPT !.val = c.val % 256]
      [] c.prim = "dac5820_set_power" ->
             [dev EXCEPT !.pow = c.mode]
      [] OTHER -> dev

DeviceAfter_rollback(dev, c, res, eff) ==
    IF res >= 0 THEN Written(dev, c)
    ELSE [dev EXCEPT !.sw = [@ EXCEPT !["CPLD_HVEN"] = 0]]

\* Device registers after one primitive call: a successful call writes its
\* target; a failed call leaves its own target either written or untouched
\* (eff); nothing else is touched.
DeviceAfter(dev, c, res, eff) ==
    IF res >= 0 \/ eff THEN Written(dev, c) ELSE dev

\* Number of timing registers of the PMIC: the length of the initialiser
\* lists of MAX17135_TIMINGS_SEQ0 and of seqs[0].timing.
MAX17135_NB_TIMINGS == 8

\* static const struct power_seq seqs[], in table order; the terminating
\* entry { .name = NULL } is the position Len(seqs) + 1.
seqs == <<
    [name |-> "seq0", on |-> "power_on_seq0", off |-> "power_off_seq0",
     timing |-> <<8, 2, 11, 3, 0, 0, 0, 0>>] >>

get_on_off_opt_not_off(on_off) == IF on_off = "off" THEN 0 ELSE 1

get_on_off_opt(on_off) ==
    IF on_off = "on" THEN 1
    ELSE IF on_off = "off" THEN 0
    ELSE -1

get_power_seq_default(argv) ==
    LET hits == {k \in 1..Len(seqs) : Len(argv) >= 1 /\ seqs[k].name = argv[1]}
    IN  IF hits = {}
        THEN [seq |-> 1, log |-> <<>>]
        ELSE [seq |-> CHOOSE k \in hits : \A j \in hits : k <= j,
              log |-> <<>>]

\* get_power_seq(argc, argv): seq is the position in seqs of the sequence
\* returned, 0 for NULL.
get_power_seq(argv) ==
    IF Len(argv) < 1
    THEN [seq |-> 1, log |-> <<>>]
    ELSE LET hits == {k \in 1..Len(seqs) : seqs[k].name = argv[1]}
         IN  IF hits = {}
             THEN [seq |-> 0, log |-> << <<"Sequence not found", argv[1]>> >>]
             ELSE [seq |-> CHOOSE k \in hits : \A j \in hits : k <= j,
                   log |-> <<>>]

\* atoi on the argument words used here: a decimal number yields its
\* value, a word that starts with no digit yields 0.
atoi(s) ==
    CASE s = "0"   -> 0
      [] s = "2"   -> 2
      [] s = "3"   -> 3
      [] s = "8"   -> 8
      [] s = "11"  -> 11
      [] s = "127" -> 127
      [] s = "128" -> 128
      [] s = "200" -> 200
      [] s = "255" -> 255
      [] s = "256" -> 256
      [] s = "-1"  -> -1
      [] OTHER     -> 0

CharConv_clamp(v, char_signed) ==
    IF char_signed /\ v >= 128 THEN 127 ELSE v

\* The value a plain char holds after an int v in 0..255 is assigned to it:
\* v itself where char is unsigned, v reduced to -128..127 where it is
\* signed.
CharConv(v, char_signed) ==
    IF char_signed /\ v >= 128 THEN v - 256 ELSE v

\* main: struct ctx ctx is initialised with every handle NULL.
NoHandles == [inits |-> [d \in Devices |-> 0],
              frees |-> [d \in Devices |-> 0], cleaned |-> FALSE]

PInit ==
    /\ ctx = [d \in Devices |-> FALSE]
    /\ cpld_sw \in [CpldLines -> {0, 1}]
    /\ dac_val = 0
    /\ dac_pow = "DAC5820_POW_OFF_100K"
    /\ pw_pc = "idle"
    /\ pw_op = "none"
    /\ pw_step = 0
    /\ pw_vcom = 0
    /\ pw_ret = 0
    /\ pw_calls = <<>>
    /\ pw_log = <<>>
    /\ pw_out = <<>>
    /\ pw_dev0 = [sw |-> cpld_sw, val |-> dac_val, pow |-> dac_pow]
    /\ pw_arg = [argv |-> <<>>, char_signed |-> FALSE, seq |-> 0,
                 log |-> <<>>]
    /\ hnd = NoHandles

\* Entry of power_on_seq0 / power_off_seq0: require_cpld, require_max17135,
\* require_dac (lazy init, may yield NULL), then the NULL checks.
PowerBegin(op, vcom, inits) ==
    /\ pw_pc = "idle"
    /\ ctx' = [d \in Devices |->
                 IF d \in Required(op) /\ ~ctx[d] THEN inits[d] ELSE ctx[d]]
    /\ hnd' = [hnd EXCEPT !.inits = [d \in Devices |->
                 IF d \in Required(op) /\ ~ctx[d] /\ inits[d]
                 THEN @[d] + 1 ELSE @[d]]]
    /\ pw_op' = op
    /\ pw_vcom' = vcom
    /\ pw_calls' = <<>>
    /\ pw_log' = <<>>
    /\ pw_out' = <<>>
    /\ pw_dev0' = [sw |-> cpld_sw, val |-> dac_val, pow |-> dac_pow]
    /\ IF \E d \in NullChecked(op) : ~ctx'[d]
       THEN /\ pw_pc' = "returned"
            /\ pw_ret' = -1
            /\ pw_step' = 0
       ELSE /\ pw_pc' = "steps"
            /\ pw_ret' = 0
            /\ pw_step' = 1
    /\ UNCHANGED <<cpld_sw, dac_val, dac_pow>>
    /\ UNCHANGED <<xvars, svars, cvars>>

\* Argument vectors tried with the power command.
PowerArgs == {<<>>, <<"up">>, <<"on">>, <<"off">>,
              <<"on", "seq0">>, <<"off", "seq0">>,
              <<"on", "seq1">>, <<"off", "SEQ0">>, <<"on", "">>,
              <<"on", "seq0", "0">>, <<"on", "seq0", "200">>,
              <<"on", "seq0", "255">>, <<"on", "seq0", "256">>,
              <<"on", "seq0", "-1">>, <<"off", "seq0", "200">>}

run_power_reject_vcom(argv, char_signed) ==
    LET on  == IF Len(argv) < 1 THEN -1 ELSE get_on_off_opt(argv[1])
        seq == IF on < 0 THEN 0 ELSE get_power_seq(Tail(argv)).seq
        vcom_raw == IF Len(argv) > 2 THEN atoi(argv[3]) ELSE 128
    IN  IF on < 0 \/ seq = 0 \/ (on # 0 /\ (vcom_raw < 0 \/ vcom_raw > 255))
        THEN [op |-> "none", seq |-> seq, vcom |-> 0, stat |-> -1,
              log |-> << <<"invalid arguments", "-">> >>]
        ELSE [op |-> IF on # 0 THEN "on" ELSE "off", seq |-> seq,
              vcom |-> IF on # 0 THEN CharConv(vcom_raw, char_signed) ELSE 0,
              stat |-> 0, log |-> <<>>]

\* run_power up to the call of seq->on or seq->off: op is the procedure it
\* goes on to call ("none" when it returns before), seq the position in seqs
\* of the sequence resolved (0 when none), vcom the char handed to seq->on,
\* stat the value returned when op is "none".
run_power(argv, char_signed) ==
    IF Len(argv) < 1
    THEN [op |-> "none", seq |-> 0, vcom |-> 0, stat |-> -1,
          log |-> << <<"invalid arguments", "-">> >>]
    ELSE LET on == get_on_off_opt(argv[1])
         IN  IF on < 0
             THEN [op |-> "none", seq |-> 0, vcom |-> 0, stat |-> -1,
                   log |-> << <<"invalid arguments", argv[1]>> >>]
             ELSE LET seq == get_power_seq(Tail(argv))
                  IN  IF seq.seq = 0
                      THEN [op |-> "none", seq |-> 0, vcom |-> 0, stat |-> -1,
                            log |-> seq.log]
                      ELSE IF on # 0
                      THEN LET vcom_raw == IF Len(argv) > 2
                                           THEN atoi(argv[3]) ELSE 128
                               invalid == vcom_raw < 0 \/ vcom_raw > 255
                           IN  [op |-> "on", seq |-> seq.seq,
                                vcom |-> IF invalid
                                         THEN CharConv(128, char_signed)
                                         ELSE CharConv(vcom_raw, char_signed),
                                stat |-> 0,
                                log |-> IF invalid
                                        THEN << <<"invalid vcom value",
                                                  argv[3]>> >>
                                        ELSE <<>>]
                      ELSE [op |-> "off", seq |-> seq.seq, vcom |-> 0, stat |-> 0,
                            log |-> <<>>]

\* plhwtools power on [seq [vcom]]: run_power, then seq->on.
power_on ==
    /\ pw_pc = "idle"
    /\ cmd.pc = "idle"
    /\ \E argv \in PowerArgs, char_signed \in BOOLEAN,
          inits \in [Devices -> BOOLEAN] :
        LET r == run_power(argv, char_signed)
        IN  /\ r.op = "on"
            /\ PowerBegin("on", r.vcom, inits)
            /\ pw_arg' = [argv |-> argv, char_signed |-> char_signed,
                          seq |-> r.seq, log |-> r.log]

\* plhwtools power off [seq]: run_power, then seq->off.
power_off ==
    /\ pw_pc = "idle"
    /\ cmd.pc = "idle"
    /\ \E argv \in PowerArgs, char_signed \in BOOLEAN,
          inits \in [Devices -> BOOLEAN] :
        LET r == run_power(argv, char_signed)
        IN  /\ r.op = "off"
            /\ PowerBegin("off", 0, inits)
            /\ pw_arg' = [argv |-> argv, char_signed |-> char_signed,
                          seq |-> r.seq, log |-> r.log]

\* plhwtools power with arguments run_power rejects: it returns before any
\* handle is required and before any procedure is called.
power_invalid ==
    /\ pw_pc = "idle"
    /\ cmd.pc = "idle"
    /\ \E argv \in PowerArgs, char_signed \in BOOLEAN :
        LET r == run_power(argv, char_signed)
        IN  /\ r.op = "none"
            /\ pw_pc' = "returned"
            /\ pw_ret' = r.stat
            /\ pw_op' = "none"
            /\ pw_step' = 0
            /\ pw_vcom' = 0
            /\ pw_calls' = <<>>
            /\ pw_log' = <<>>
            /\ pw_out' = <<>>
            /\ pw_arg' = [argv |-> argv, char_signed |-> char_signed,
                          seq |-> r.seq, log |-> r.log]
            /\ UNCHANGED <<ctx, cpld_sw, dac_val, dac_pow, pw_dev0, hnd>>
            /\ UNCHANGED <<xvars, svars, cvars>>

\* One STEP(cmd, msg) of the running procedure.
PowerStep ==
    /\ pw_pc = "steps"
    /\ LET steps == StepsOf(pw_op, pw_vcom)
           s     == steps[pw_step]
           dev   == [sw |-> cpld_sw, val |-> dac_val, pow |-> dac_pow]
       IN  /\ ctx[HandleOf(s.call.prim)]
           /\ \E res \in Results, eff \in BOOLEAN :
                LET st  == STEP(res, s.msg)
                    dv  == DeviceAfter(dev, s.call, res, eff)
                IN  /\ (res >= 0 => eff)
                    /\ pw_calls' = Append(pw_calls, s.call)
                    /\ pw_log' = Append(pw_log, st.line)
                    /\ pw_out' = Append(pw_out, IF res < 0 THEN "fail" ELSE "ok")
                    /\ cpld_sw' = dv.sw
                    /\ dac_val' = dv.val
                    /\ dac_pow' = dv.pow
                    /\ IF st.stop
                       THEN /\ pw_pc' = "returned"
                            /\ pw_ret' = st.ret
                            /\ pw_step' = pw_step
                       ELSE IF pw_step = Len(steps)
                       THEN /\ pw_pc' = "returned"
                            /\ pw_ret' = 0
                            /\ pw_step' = pw_step + 1
                       ELSE /\ pw_pc' = "steps"
                            /\ pw_ret' = pw_ret
                            /\ pw_step' = pw_step + 1
    /\ UNCHANGED <<ctx, pw_op, pw_vcom, pw_dev0, pw_arg, hnd>>
    /\ UNCHANGED <<xvars, svars, cvars>>

\* A STEP whose primitive is handed a NULL handle (the DAC handle is not
\* checked): the library either faults or reports an error.
PowerStepNull ==
    /\ pw_pc = "steps"
    /\ LET steps == StepsOf(pw_op, pw_vcom)
           s     == steps[pw_step]
       IN  /\ ~ctx[HandleOf(s.call.prim)]
           /\ pw_calls' = Append(pw_calls, s.call)
           /\ \/ /\ pw_pc' = "crashed"
                 /\ pw_out' = Append(pw_out, "crash")
                 /\ UNCHANGED <<pw_log, pw_ret>>
              \/ \E res \in {r \in Results : r < 0} :
                    LET st == STEP(res, s.msg)
                    IN  /\ pw_log' = Append(pw_log, st.line)
                        /\ pw_out' = Append(pw_out, "fail")
                        /\ IF st.stop
                           THEN pw_pc' = "returned" /\ pw_ret' = st.ret
                           ELSE pw_pc' = "crashed" /\ pw_ret' = pw_ret
    /\ UNCHANGED <<ctx, cpld_sw, dac_val, dac_pow, pw_op, pw_step, pw_vcom,
                   pw_dev0, pw_arg, hnd>>
    /\ UNCHANGED <<xvars, svars, cvars>>

\* main, the clean-up after run_cmd has returned: every handle that is not
\* NULL is passed to its _free, once; the pointers are left as they are.
main_clean_up ==
    /\ pw_pc = "returned"
    /\ ~hnd.cleaned
    /\ hnd' = [hnd EXCEPT !.frees = [d \in Devices |->
                                       IF ctx[d] THEN @[d] + 1 ELSE @[d]],
                          !.cleaned = TRUE]
    /\ UNCHANGED <<ctx, cpld_sw, dac_val, dac_pow, pw_pc, pw_op, pw_step,
                   pw_vcom, pw_ret, pw_calls, pw_log, pw_out, pw_dev0, pw_arg>>
    /\ UNCHANGED <<xvars, svars, cvars>>

\* The process is gone, by exit after the clean-up or by the fault of a
\* primitive; the next command runs in a new process.
PowerExit ==
    /\ \/ pw_pc = "returned" /\ hnd.cleaned
       \/ pw_pc = "crashed"
    /\ pw_pc' = "idle"
    /\ ctx' = [d \in Devices |-> FALSE]
    /\ pw_op' = "none"
    /\ pw_step' = 0
    /\ pw_vcom' = 0
    /\ pw_ret' = 0
    /\ pw_calls' = <<>>
    /\ pw_log' = <<>>
    /\ pw_out' = <<>>
    /\ pw_dev0' = [sw |-> cpld_sw, val |-> dac_val, pow |-> dac_pow]
    /\ pw_arg' = [argv |-> <<>>, char_signed |-> FALSE, seq |-> 0,
                  log |-> <<>>]
    /\ hnd' = NoHandles
    /\ UNCHANGED <<cpld_sw, dac_val, dac_pow>>
    /\ UNCHANGED <<xvars, svars, cvars>>

(***************************************************************************)
(* EEPROM transfer                                                         *)
(***************************************************************************)

\* rw_file_eeprom: static const size_t buffer_size
buffer_size == 4096

\* pad_eeprom: static const size_t N_ZEROS
N_ZEROS == 64

\* Largest number of whole buffers in a transfer.
MaxChunks == 2

\* eeprom_get_size(): capacity of the attached EEPROM.
EepromSize == MaxChunks * buffer_size + 1808

\* Values of the data_size option; 0 is the option left out, which is how
\* the whole EEPROM is transferred; the largest value exceeds the EEPROM.
DataSizeOpts == {k * buffer_size + r : k \in 0..MaxChunks, r \in {0, 2000}}

\* Values of the skip option.
SkipOpts == {0, 16}

\* Lengths of the input stream of a f2e transfer.
SrcLens == {0, 1000, 2500, buffer_size, buffer_size + 1, EepromSize + 1}

min_first(a, b) == a

min(a, b) == IF a < b THEN a ELSE b

\* What read(fd, buffer, rwsz) can return with avail bytes still to come: all
\* it can give, or one byte less (a pipe), or -1; 0 only at end of input.
SrcRead(rwsz, avail) ==
    LET m == min(rwsz, avail)
    IN  {-1, m} \cup (IF m >= 2 THEN {m - 1} ELSE {})

\* What write(fd, buffer, rwsz) can return: all, one byte short, or -1.
SinkWrite(rwsz) == {-1, rwsz, rwsz - 1}

\* What eeprom_read / eeprom_write return.
EepromResults == {-1, 0}

IoCall(op, off, len, res) == [op |-> op, off |-> off, len |-> len, res |-> res]

log_eeprom_progress_rem(total, rem, msg) ==
    LET prog == rem
        prog_percent == (prog * 100) \div total
    IN  [msg |-> msg, percent |-> prog_percent, prog |-> prog, total |-> total]

\* log_eeprom_progress(total, rem, msg): the line printed, with the total it
\* was computed from.
log_eeprom_progress(total, rem, msg) ==
    LET prog == total - rem
        prog_percent == (prog * 100) \div total
    IN  [msg |-> msg, percent |-> prog_percent, prog |-> prog, total |-> total]

XInit ==
    /\ g_abort = 0
    /\ x_pc = "idle"
    /\ x_opt = [data_size |-> 0, skip |-> 0, zero_padding |-> 0, given |-> 0]
    /\ write_file = 0
    /\ left = 0
    /\ pad_left = 0
    /\ x_ret = 0
    /\ e_pos = 0
    /\ e_writes = <<>>
    /\ sink = <<>>
    /\ src_len = 0
    /\ src_pos = 0
    /\ x_calls = <<>>
    /\ x_prog = <<>>
    /\ x_stop = "none"
    /\ x_chunks = 0
    /\ x_late = FALSE
    /\ sig_pc = "none"
    /\ sig_chunks = 0

\* No full_rw command is running.
SInit ==
    rw = [pc |-> "idle", size |-> 0, seed |-> 0, bad |-> {}, wres |-> 0,
          rres |-> 0, i |-> 0, cmp_max |-> -1, ret |-> 0, calls |-> <<>>,
          rep |-> <<>>, good |-> FALSE, ans |-> "none", fin |-> FALSE,
          term |-> [state |-> "TERM_IN_BLANK", tty |-> "cooked",
                    tio |-> <<>>]]

\* No single-shot command is running.
CInit ==
    cmd = [pc |-> "idle", tool |-> "none", argv |-> <<>>, ret |-> 0,
           calls |-> <<>>, log |-> <<>>]

Init == PInit /\ XInit /\ SInit /\ CInit

sigint_abort_toggle ==
    /\ g_abort' = 1 - g_abort
    /\ sig_pc' = x_pc
    /\ sig_chunks' = x_chunks
    /\ UNCHANGED <<x_pc, x_opt, write_file, left, pad_left, x_ret, e_pos,
                   e_writes, sink, src_len, src_pos, x_calls, x_prog, x_stop,
                   x_chunks, x_late>>
    /\ UNCHANGED <<pvars, svars, cvars>>

\* sigint_abort(SIGINT): may arrive at any point of the process.
sigint_abort ==
    /\ g_abort = 0
    /\ g_abort' = 1
    /\ sig_pc' = x_pc
    /\ sig_chunks' = x_chunks
    /\ UNCHANGED <<x_pc, x_opt, write_file, left, pad_left, x_ret, e_pos,
                   e_writes, sink, src_len, src_pos, x_calls, x_prog, x_stop,
                   x_chunks, x_late>>
    /\ UNCHANGED <<pvars, svars, cvars>>

DataSize_raw(ds, esize) == ds

\* run_eeprom: a data_size of 0 (option not given) becomes the EEPROM size.
DataSize(ds, esize) == IF ds = 0 THEN esize ELSE ds

eeprom_seek_start(off) == 0

\* eeprom_seek(eeprom, off): the position the next EEPROM access starts at.
eeprom_seek(off) == off

\* run_eeprom e2f|f2e: resolve data_size against the EEPROM size, then enter
\* rw_file_eeprom up to its loop: malloc, left = data_size, eeprom_seek(skip).
run_eeprom(wf, ds, skip, zp, slen, malloc_ok) ==
    /\ x_pc = "idle"
    /\ write_file' = wf
    /\ src_len' = IF wf = 1 THEN 0 ELSE slen
    /\ LET data_size == DataSize(ds, EepromSize)
       IN  /\ x_opt' = [data_size |-> data_size, skip |-> skip,
                        zero_padding |-> zp, given |-> ds]
           /\ IF ds > EepromSize
              THEN /\ x_pc' = "done"
                   /\ x_stop' = "rejected"
                   /\ x_ret' = -1
                   /\ UNCHANGED <<left, e_pos>>
              ELSE IF ~malloc_ok
              THEN /\ x_pc' = "done"
                   /\ x_stop' = "nomem"
                   /\ x_ret' = -1
                   /\ left' = data_size
                   /\ UNCHANGED e_pos
              ELSE /\ x_pc' = "loop"
                   /\ x_stop' = "none"
                   /\ x_ret' = 0
                   /\ left' = data_size
                   /\ e_pos' = eeprom_seek(skip)
    /\ UNCHANGED <<g_abort, pad_left, e_writes, sink, src_pos, x_calls,
                   x_prog, x_chunks, x_late, sig_pc, sig_chunks>>
    /\ UNCHANGED <<pvars, svars, cvars>>

StartTransfer ==
    \E wf \in {0, 1}, ds \in DataSizeOpts, skip \in SkipOpts, zp \in {0, 1},
       slen \in SrcLens, malloc_ok \in BOOLEAN :
        run_eeprom(wf, ds, skip, zp, slen, malloc_ok)

LoopCond_no_abort(l, r, a) == l # 0 /\ r = 0

LoopCond_ignore_ret(l, r, a) == l # 0 /\ a = 0

\* rw_file_eeprom: while (left && !ret && !g_abort)
LoopCond(l, r, a) == l # 0 /\ r = 0 /\ a = 0

LoopCheck ==
    /\ x_pc = "loop"
    /\ IF LoopCond(left, x_ret, g_abort)
       THEN /\ x_pc' = "body"
            /\ UNCHANGED x_stop
       ELSE /\ x_pc' = "done"
            /\ x_stop' = IF left = 0 THEN "complete"
                         ELSE IF x_ret # 0 THEN "failure" ELSE "abort"
    /\ UNCHANGED <<g_abort, x_opt, write_file, left, pad_left, x_ret, e_pos,
                   e_writes, sink, src_len, src_pos, x_calls, x_prog,
                   x_chunks, x_late, sig_pc, sig_chunks>>
    /\ UNCHANGED <<pvars, svars, cvars>>

ChunkPos_reseek(pos, skip) == skip

\* The EEPROM position a chunk is read from or written to: the loops never
\* seek, so it is where the previous access ended.
ChunkPos(pos, skip) == pos

\* Loop body, write_file branch: eeprom_read then write(fd).
ChunkE2F ==
    /\ x_pc = "body"
    /\ write_file = 1
    /\ LET rwsz == IF left > buffer_size THEN buffer_size ELSE left
           pos  == ChunkPos(e_pos, x_opt.skip)
       IN  /\ x_prog' = Append(x_prog,
                 log_eeprom_progress(x_opt.data_size, left - rwsz, "Reading"))
           /\ \E rres \in EepromResults :
                IF rres < 0
                THEN /\ x_ret' = -1
                     /\ x_calls' = Append(x_calls,
                            IoCall("eeprom_read", pos, rwsz, rres))
                     /\ UNCHANGED <<sink, e_pos>>
                ELSE \E wres \in SinkWrite(rwsz) :
                     /\ x_ret' = IF wres < 0 THEN -1 ELSE x_ret
                     /\ x_calls' = x_calls \o
                            << IoCall("eeprom_read", pos, rwsz, rres),
                               IoCall("write", pos, rwsz, wres) >>
                     /\ sink' = IF wres > 0
                                THEN Append(sink, [off |-> pos, len |-> wres])
                                ELSE sink
                     /\ e_pos' = pos + rwsz
           /\ left' = left - rwsz
    /\ x_chunks' = x_chunks + 1
    /\ x_pc' = "loop"
    /\ UNCHANGED <<g_abort, x_opt, write_file, pad_left, e_writes, src_len,
                   src_pos, x_stop, x_late, sig_pc, sig_chunks>>
    /\ UNCHANGED <<pvars, svars, cvars>>

PadArg_whole(l, rdsz) == l

\* rw_file_eeprom: left -= rdsz, the amount handed to pad_eeprom.
PadArg(l, rdsz) == l - rdsz

ShortReadLeft_continue(l, rdsz) == l - rdsz

\* rw_file_eeprom: left = 0 after a short read, which ends the loop.
ShortReadLeft(l, rdsz) == 0

\* Loop body, else branch: read(fd) then eeprom_write; a short read ends the
\* loop, through pad_eeprom when zero_padding is set.
ChunkF2E ==
    /\ x_pc = "body"
    /\ write_file = 0
    /\ LET rwsz == IF left > buffer_size THEN buffer_size ELSE left
           pos  == ChunkPos(e_pos, x_opt.skip)
       IN  \E rdsz \in SrcRead(rwsz, src_len - src_pos) :
             IF rdsz < 0
             THEN /\ x_ret' = -1
                  /\ x_calls' = Append(x_calls, IoCall("read", src_pos, rwsz, rdsz))
                  /\ x_pc' = "loop"
                  /\ UNCHANGED <<x_prog, e_writes, e_pos, src_pos, left,
                                 pad_left>>
             ELSE
               /\ x_prog' = Append(x_prog,
                     log_eeprom_progress(x_opt.data_size, left - rdsz, "Writing"))
               /\ src_pos' = src_pos + rdsz
               /\ \E wres \in EepromResults :
                    /\ x_calls' = x_calls \o
                           << IoCall("read", src_pos, rwsz, rdsz),
                              IoCall("eeprom_write", pos, rdsz, wres) >>
                    /\ IF wres < 0
                       THEN /\ x_ret' = -1
                            /\ x_pc' = "loop"
                            /\ UNCHANGED <<e_writes, e_pos, left, pad_left>>
                       ELSE
                         /\ e_writes' = Append(e_writes,
                               [off |-> pos, len |-> rdsz, kind |-> "src",
                                from |-> src_pos])
                         /\ e_pos' = pos + rdsz
                         /\ IF rdsz = rwsz
                            THEN /\ left' = left - rwsz
                                 /\ x_pc' = "loop"
                                 /\ UNCHANGED <<x_ret, pad_left>>
                            ELSE IF x_opt.zero_padding # 0
                                    /\ PadArg(left, rdsz) # 0
                            THEN /\ left' = PadArg(left, rdsz)
                                 /\ pad_left' = PadArg(left, rdsz)
                                 /\ x_pc' = "pad"
                                 /\ UNCHANGED x_ret
                            ELSE /\ left' = ShortReadLeft(left, rdsz)
                                 /\ x_ret' = 0
                                 /\ x_pc' = "loop"
                                 /\ UNCHANGED pad_left
    /\ x_chunks' = x_chunks + 1
    /\ UNCHANGED <<g_abort, x_opt, write_file, sink, src_len, x_stop, x_late,
                   sig_pc, sig_chunks>>
    /\ UNCHANGED <<pvars, svars, cvars>>

\* pad_eeprom: while (left)
PadCond(l, a) == l # 0

\* One iteration of the pad_eeprom loop; when the loop ends pad_eeprom
\* returns into rw_file_eeprom, which stores ret and sets left = 0.
PadStep ==
    /\ x_pc = "pad"
    /\ IF ~PadCond(pad_left, g_abort)
       THEN /\ x_ret' = 0
            /\ left' = 0
            /\ x_pc' = "loop"
            /\ UNCHANGED <<pad_left, x_prog, x_calls, e_writes, e_pos, x_late>>
       ELSE
         LET n   == min(N_ZEROS, pad_left)
             pos == ChunkPos(e_pos, x_opt.skip)
         IN  /\ x_prog' = Append(x_prog,
                   log_eeprom_progress(x_opt.data_size, pad_left - n, "Padding"))
             /\ x_late' = (x_late \/ g_abort = 1)
             /\ \E wres \in EepromResults :
                  /\ x_calls' = Append(x_calls,
                         IoCall("eeprom_write", pos, n, wres))
                  /\ IF wres < 0
                     THEN /\ x_ret' = -1
                          /\ left' = 0
                          /\ x_pc' = "loop"
                          /\ UNCHANGED <<pad_left, e_writes, e_pos>>
                     ELSE /\ e_writes' = Append(e_writes,
                                [off |-> pos, len |-> n, kind |-> "zero",
                                 from |-> 0])
                          /\ e_pos' = pos + n
                          /\ pad_left' = pad_left - n
                          /\ IF PadCond(pad_left - n, g_abort)
                             THEN /\ x_pc' = "pad"
                                  /\ UNCHANGED <<x_ret, left>>
                             ELSE /\ x_ret' = 0
                                  /\ left' = 0
                                  /\ x_pc' = "loop"
    /\ UNCHANGED <<g_abort, x_opt, write_file, sink, src_len, src_pos, x_stop,
                   x_chunks, sig_pc, sig_chunks>>
    /\ UNCHANGED <<pvars, svars, cvars>>

\* run_eeprom returns and the process exits.
XferExit ==
    /\ x_pc = "done"
    /\ g_abort' = 0
    /\ x_pc' = "idle"
    /\ x_opt' = [data_size |-> 0, skip |-> 0, zero_padding |-> 0,
                 given |-> 0]
    /\ write_file' = 0
    /\ left' = 0
    /\ pad_left' = 0
    /\ x_ret' = 0
    /\ e_pos' = 0
    /\ e_writes' = <<>>
    /\ sink' = <<>>
    /\ src_len' = 0
    /\ src_pos' = 0
    /\ x_calls' = <<>>
    /\ x_prog' = <<>>
    /\ x_stop' = "none"
    /\ x_chunks' = 0
    /\ x_late' = FALSE
    /\ sig_pc' = "none"
    /\ sig_chunks' = 0
    /\ UNCHANGED <<pvars, svars, cvars>>

NextXfer ==
    \/ StartTransfer
    \/ LoopCheck
    \/ ChunkE2F
    \/ ChunkF2E
    \/ PadStep
    \/ sigint_abort
    \/ XferExit

\* The transfer does not touch the switch bank: one setting of its lines.
InitXfer == Init /\ cpld_sw = [l \in CpldLines |-> 0]

SpecXfer == InitXfer /\ [][NextXfer]_vars

\* The steps of rw_file_eeprom and pad_eeprom: the process keeps running and
\* every primitive call returns, so a step that can be taken is taken.
XferStep == LoopCheck \/ ChunkE2F \/ ChunkF2E \/ PadStep

SpecXferFair == InitXfer /\ [][NextXfer]_vars /\ WF_vars(XferStep)


NextPower ==
    \/ power_on
    \/ power_off
    \/ power_invalid
    \/ PowerStep
    \/ PowerStepNull
    \/ main_clean_up
    \/ PowerExit

SpecPower == Init /\ [][NextPower]_vars

(***************************************************************************)
(* eeprom full_rw: full_rw_eeprom writes pseudo-random bytes, reads them   *)
(* back and compares the two buffers.                                      *)
(***************************************************************************)

\* Sizes given with the data_size option, EEPROM defects and answers to the
\* confirmation prompt the command is run with.
TestSizes == {1, 200, 4096}
Seeds == {1, 224}
BadSets ==
    {{}, {0}, {127}, {128}, {129}, {4000}, {4095}, {129, 4000}, {4000, 4095}}
Answers == {"y", "n", "Y", "EOF"}

\* Sizes the command is run with when the terminal calls may fail.
PromptSizes == {1, 200}

\* The stdin terminal: state is g_stdin_termios_state, tty the settings the
\* terminal has ("cooked": those found at start, "raw": ICANON and ECHO
\* cleared), tio the tcgetattr and tcsetattr calls made so far.
TioCall(fn, by, res) == [fn |-> fn, by |-> by, res |-> res]

\* The result of a libc call that succeeds (ok) or fails.
LibcRes(ok) == IF ok THEN 0 ELSE -1

\* save_stdin_termios: get_ok is whether tcgetattr succeeds.
save_stdin_termios(t, get_ok) ==
    IF t.state # "TERM_IN_BLANK"
    THEN [t |-> t, ret |-> -1]
    ELSE LET t1 == [t EXCEPT !.tio = Append(@,
                       TioCall("tcgetattr", "save", LibcRes(get_ok)))]
         IN  IF ~get_ok
             THEN [t |-> t1, ret |-> -1]
             ELSE [t |-> [t1 EXCEPT !.state = "TERM_IN_SAVED"], ret |-> 0]

\* restore_stdin_termios: set_ok is whether tcsetattr succeeds.
restore_stdin_termios(t, set_ok) ==
    IF t.state \in {"TERM_IN_BLANK", "TERM_IN_SAVED"}
    THEN [t |-> t, ret |-> 0]
    ELSE LET t1 == [t EXCEPT !.tio = Append(@,
                       TioCall("tcsetattr", "restore", LibcRes(set_ok)))]
         IN  IF ~set_ok
             THEN [t |-> t1, ret |-> -1]
             ELSE [t |-> [t1 EXCEPT !.state = "TERM_IN_SAVED",
                                    !.tty = "cooked"],
                   ret |-> 0]

disable_stdin_buffering_unsaved(t, get_ok, set_ok) ==
    IF t.state = "TERM_IN_ERROR"
    THEN [t |-> t, ret |-> -1]
    ELSE [t |-> [t EXCEPT !.state = IF set_ok THEN "TERM_IN_EDITED"
                                              ELSE "TERM_IN_ERROR",
                          !.tty = IF set_ok THEN "raw" ELSE @,
                          !.tio = @ \o
                             <<TioCall("tcgetattr", "disable", 0),
                               TioCall("tcsetattr", "disable",
                                       LibcRes(set_ok))>>],
          ret |-> LibcRes(set_ok)]

\* disable_stdin_buffering: get_ok and set_ok are whether tcgetattr and
\* tcsetattr succeed; a tcsetattr that fails changes nothing.
disable_stdin_buffering(t, get_ok, set_ok) ==
    IF t.state \in {"TERM_IN_BLANK", "TERM_IN_ERROR"}
    THEN [t |-> t, ret |-> -1]
    ELSE LET t1 == [t EXCEPT !.tio = Append(@,
                       TioCall("tcgetattr", "disable", LibcRes(get_ok)))]
             t2 == [t1 EXCEPT !.tio = Append(@,
                       TioCall("tcsetattr", "disable", LibcRes(set_ok)))]
         IN  IF ~get_ok
             THEN [t |-> t1, ret |-> -1]
             ELSE IF ~set_ok
             THEN [t |-> [t2 EXCEPT !.state = "TERM_IN_ERROR"], ret |-> -1]
             ELSE [t |-> [t2 EXCEPT !.state = "TERM_IN_EDITED",
                                    !.tty = "raw"],
                   ret |-> 0]

\* Which of the terminal calls of one run succeed: tcgetattr in
\* save_stdin_termios, tcgetattr and tcsetattr in disable_stdin_buffering,
\* tcsetattr in run_eeprom's restore_stdin_termios.
TermEnvs == [save_get : BOOLEAN, dis_get : BOOLEAN, dis_set : BOOLEAN,
             res_set : BOOLEAN]

TermOk == [save_get |-> TRUE, dis_get |-> TRUE, dis_set |-> TRUE,
           res_set |-> TRUE]

\* Byte i of data_w: rand() & 0xFF after srand(time(0)), a byte fixed by the
\* seed and the index.
data_w(seed, i) == (i * 37 + seed) % 256

\* Byte i of data_r after the read-back: zero where memset left it because
\* eeprom_read failed, zero where the EEPROM returns a corrupted cell, the
\* byte written otherwise.
data_r(s, i) ==
    IF s.rres < 0 THEN 0
    ELSE IF i \in s.bad THEN 0
    ELSE data_w(s.seed, i)

\* const size_t dump_size = min(256, opt->data_size)
dump_size(data_size) == min(256, data_size)

RECURSIVE HexDigits(_)
\* The hexadecimal digits of n, most significant first.
HexDigits(n) ==
    IF n < 16 THEN <<n>> ELSE Append(HexDigits(n \div 16), n % 16)

\* printf %04X: the hexadecimal digits, zero-filled to at least four.
Fmt04X(n) ==
    LET d == HexDigits(n)
    IN  IF Len(d) >= 4 THEN d ELSE [k \in 1..(4 - Len(d)) |-> 0] \o d

Differ_never(r, w) == FALSE

\* if (*it_r++ != *it_w++)
Differ(r, w) == r # w

WindowStart_raw(i) == i - 128

\* const int addr = (i > 128) ? (i - 128) : 0
WindowStart(i) == IF i > 128 THEN i - 128 ELSE 0

Confirmed_unless_no(c) == c # "n"

\* if (c == 'y')
Confirmed(c) == c = "y"

WriteReadRet_last(wres, rres) == IF rres < 0 THEN -1 ELSE 0

\* ret after the write and the read of full_rw_eeprom: -1 when either
\* failed.
WriteReadRet(wres, rres) == IF wres < 0 \/ rres < 0 THEN -1 ELSE 0

\* main's save_stdin_termios, then run_eeprom full_rw up to the answer to
\* its prompt: the size check, disable_stdin_buffering, fgetc,
\* restore_stdin_termios, and the return of -1 unless the answer is y.
run_eeprom_full_rw(ans, ds, tenv) ==
    /\ rw.pc = "idle"
    /\ LET data_size == DataSize(ds, EepromSize)
           t0 == save_stdin_termios(rw.term, tenv.save_get).t
           t1 == disable_stdin_buffering(t0, tenv.dis_get, tenv.dis_set).t
           t2 == restore_stdin_termios(t1, tenv.res_set).t
       IN  IF ds > EepromSize
           THEN rw' = [rw EXCEPT !.size = data_size, !.pc = "done",
                                 !.ret = -1, !.term = t0]
           ELSE rw' = [rw EXCEPT
                         !.size = data_size,
                         !.ans = ans,
                         !.term = t2,
                         !.pc = IF Confirmed(ans) THEN "confirmed" ELSE "done",
                         !.ret = IF Confirmed(ans) THEN 0 ELSE -1]
    /\ UNCHANGED <<pvars, xvars, cvars>>

\* eeprom full_rw on a terminal whose calls succeed.
ConfirmFullRw ==
    \E ans \in Answers, ds \in TestSizes :
        run_eeprom_full_rw(ans, ds, TermOk)

\* eeprom full_rw on a terminal whose calls may fail.
ConfirmFullRwTerm ==
    \E ans \in Answers, ds \in PromptSizes, tenv \in TermEnvs :
        run_eeprom_full_rw(ans, ds, tenv)

\* full_rw_eeprom up to its comparison loop: both mallocs, the buffers,
\* seek, write, seek, read.
full_rw(seed, bad, mem_ok, wres, rres) ==
    /\ rw.pc = "confirmed"
    /\ LET begun == [rw EXCEPT !.seed = seed, !.bad = bad]
       IN  IF ~mem_ok
           THEN rw' = [begun EXCEPT !.pc = "done", !.ret = -1]
           ELSE rw' = [begun EXCEPT
                         !.pc = "compare",
                         !.wres = wres,
                         !.rres = rres,
                         !.i = 0,
                         !.ret = WriteReadRet(wres, rres),
                         !.calls = << [op |-> "eeprom_seek", off |-> 0,
                                       len |-> 0, res |-> 0],
                                      [op |-> "eeprom_write", off |-> 0,
                                       len |-> rw.size, res |-> wres],
                                      [op |-> "eeprom_seek", off |-> 0,
                                       len |-> 0, res |-> 0],
                                      [op |-> "eeprom_read", off |-> 0,
                                       len |-> rw.size, res |-> rres] >>]
    /\ UNCHANGED <<pvars, xvars, cvars>>

StartSelfTest ==
    \E seed \in Seeds, mem_ok \in BOOLEAN,
       wres \in EepromResults, rres \in EepromResults :
        \E bad \in {b \in BadSets : \A j \in b : j < rw.size} :
            full_rw(seed, bad, mem_ok, wres, rres)

\* One pass of the comparison loop: the test i < data_size, the comparison
\* of byte i, the report and break on a difference, ++i otherwise; after the
\* loop, "All good." when ret is still 0.
CompareStep ==
    /\ rw.pc = "compare"
    /\ IF rw.i < rw.size
       THEN IF Differ(data_r(rw, rw.i), data_w(rw.seed, rw.i))
            THEN rw' = [rw EXCEPT
                          !.cmp_max = rw.i,
                          !.rep = Append(rw.rep,
                                    [at |-> Fmt04X(rw.i),
                                     start |-> Fmt04X(WindowStart(rw.i)),
                                     addr |-> WindowStart(rw.i),
                                     wlen |-> dump_size(rw.size),
                                     rlen |-> dump_size(rw.size)]),
                          !.ret = -1,
                          !.pc = "done"]
            ELSE rw' = [rw EXCEPT !.cmp_max = rw.i, !.i = rw.i + 1]
       ELSE rw' = [rw EXCEPT !.pc = "done", !.good = (rw.ret = 0)]
    /\ UNCHANGED <<pvars, xvars, cvars>>

\* main after run_cmd has returned: restore_stdin_termios.
main_restore ==
    /\ rw.pc = "done"
    /\ ~rw.fin
    /\ \E set_ok \in BOOLEAN :
          rw' = [rw EXCEPT !.term = restore_stdin_termios(rw.term, set_ok).t,
                           !.fin = TRUE]
    /\ UNCHANGED <<pvars, xvars, cvars>>

\* The process exits; the next command runs in a new process.
SelfTestExit ==
    /\ rw.pc = "done"
    /\ rw.fin
    /\ rw' = [pc |-> "idle", size |-> 0, seed |-> 0, bad |-> {}, wres |-> 0,
              rres |-> 0, i |-> 0, cmp_max |-> -1, ret |-> 0, calls |-> <<>>,
              rep |-> <<>>, good |-> FALSE, ans |-> "none", fin |-> FALSE,
              term |-> [state |-> "TERM_IN_BLANK", tty |-> "cooked",
                        tio |-> <<>>]]
    /\ UNCHANGED <<pvars, xvars, cvars>>

NextSelfTest ==
    \/ ConfirmFullRw
    \/ StartSelfTest
    \/ CompareStep
    \/ main_restore
    \/ SelfTestExit

SpecSelfTest == InitXfer /\ [][NextSelfTest]_vars

NextTerm ==
    \/ ConfirmFullRwTerm
    \/ StartSelfTest
    \/ CompareStep
    \/ main_restore
    \/ SelfTestExit

SpecTerm == InitXfer /\ [][NextTerm]_vars

(***************************************************************************)
(* Single-shot commands: cpld (run_cpld, switch_on_off) and max17135       *)
(* timings (set_max17135_timings, get_power_seq).  argv is the argument    *)
(* vector the command function receives, a sequence of strings.            *)
(***************************************************************************)

\* run_cpld: static const struct switch_id switches[], in table order; the
\* terminating entry { NULL, -1 } is the position Len(switches) + 1.
switches == <<
    [name |-> "hv",          id |-> "CPLD_HVEN"],
    [name |-> "vcom_en",     id |-> "CPLD_COM_SW_EN"],
    [name |-> "vcom_close",  id |-> "CPLD_COM_SW_CLOSE"],
    [name |-> "vcom_psu",    id |-> "CPLD_COM_PSU"],
    [name |-> "bpcom_clamp", id |-> "CPLD_BPCOM_CLAMP"] >>

\* help_cpld: the names listed under "Switches:".
help_cpld == <<"hv", "gate", "vcom_close", "vcom_psu", "bpcom_clamp">>

\* First arguments tried with the cpld command.
CpldNames == {"hv", "vcom_en", "vcom_close", "vcom_psu", "bpcom_clamp",
              "gate", "version", "HV", "bogus"}

\* Second arguments tried with the cpld command.
OnOffWords == {"on", "off", "ON", "1", ""}

CpldArgs == {<<>>} \cup {<<n>> : n \in CpldNames}
                   \cup {<<n, v>> : n \in CpldNames, v \in OnOffWords}

\* cpld_get_version results tried.
Versions == {-1, 3}

\* One primitive call of a single-shot command: prim(handle, a1, val) or
\* prim(handle, data, val), with the result the primitive returned.
CmdCall(prim, a1, val, data, res) ==
    [prim |-> prim, a1 |-> a1, val |-> val, data |-> data, res |-> res]

find_switch_or_first(tbl, sw_name) ==
    LET hits == {k \in 1..Len(tbl) : tbl[k].name = sw_name}
    IN  IF hits = {} THEN 1
        ELSE CHOOSE k \in hits : \A j \in hits : k <= j

\* The search loop of switch_on_off: the position of the first entry named
\* sw_name, or of the terminating entry.
find_switch(tbl, sw_name) ==
    LET hits == {k \in 1..Len(tbl) : tbl[k].name = sw_name}
    IN  IF hits = {} THEN Len(tbl) + 1
        ELSE CHOOSE k \in hits : \A j \in hits : k <= j

switch_on_off_ignore_get_error(tbl, sw_name, on_off, get_sw, set_sw) ==
    LET k == find_switch(tbl, sw_name)
    IN  IF k > Len(tbl)
        THEN [stat |-> -1, calls |-> <<>>, log |-> <<>>]
        ELSE IF on_off = <<>>
        THEN [stat |-> 0,
              calls |-> <<CmdCall("get_sw", tbl[k].id, 0, <<>>,
                                  get_sw[tbl[k].id])>>,
              log |-> <<>>]
        ELSE LET on == get_on_off_opt(on_off[1])
             IN  IF on < 0
                 THEN [stat |-> on, calls |-> <<>>, log |-> <<>>]
                 ELSE [stat |-> set_sw[<<tbl[k].id, on>>],
                       calls |-> <<CmdCall("set_sw", tbl[k].id, on, <<>>,
                                           set_sw[<<tbl[k].id, on>>])>>,
                       log |-> <<>>]

\* switch_on_off(switches, ctx, sw_name, on_off, get_sw, set_sw): on_off is
\* <<>> for NULL and <<word>> otherwise; get_sw and set_sw are the results
\* the two primitives return, by line and by <<line, value>>.
switch_on_off(tbl, sw_name, on_off, get_sw, set_sw) ==
    LET k == find_switch(tbl, sw_name)
    IN  IF k > Len(tbl)
        THEN [stat |-> -1, calls |-> <<>>, log |-> <<>>]
        ELSE IF on_off = <<>>
        THEN LET on == get_sw[tbl[k].id]
                 c  == CmdCall("get_sw", tbl[k].id, 0, <<>>, on)
             IN  IF on < 0
                 THEN [stat |-> on, calls |-> <<c>>, log |-> <<>>]
                 ELSE [stat |-> 0, calls |-> <<c>>,
                       log  |-> << <<tbl[k].name,
                                     IF on # 0 THEN "on" ELSE "off">> >>]
        ELSE LET on == get_on_off_opt(on_off[1])
             IN  IF on < 0
                 THEN [stat |-> on, calls |-> <<>>,
                       log  |-> << <<"invalid value", on_off[1]>> >>]
                 ELSE LET res == set_sw[<<tbl[k].id, on>>]
                      IN  [stat |-> res,
                           calls |-> <<CmdCall("set_sw", tbl[k].id, on,
                                               <<>>, res)>>,
                           log  |-> <<>>]

\* run_cpld after require_cpld: cpld is TRUE when the handle is non-NULL.
run_cpld(cpld, argv, ver, get_sw, set_sw) ==
    IF ~cpld
    THEN [stat |-> -1, calls |-> <<>>, log |-> <<>>]
    ELSE IF Len(argv) < 1
    THEN [stat |-> 0,
          calls |-> <<CmdCall("cpld_get_version", "-", 0, <<>>, ver)>>,
          log |-> << <<"CPLD v, board id", "-">> >>]
    ELSE IF argv[1] = "version"
    THEN [stat |-> IF ver < 0 THEN -1 ELSE 0,
          calls |-> <<CmdCall("cpld_get_version", "-", 0, <<>>, ver)>>,
          log |-> <<>>]
    ELSE switch_on_off(switches, argv[1],
                       IF Len(argv) > 1 THEN <<argv[2]>> ELSE <<>>,
                       get_sw, set_sw)

\* The switch bank after the calls of a cpld command: cpld_set_switch
\* writes its line when it succeeds, and may have written it when it fails.
SwitchesAfter(sw, calls, eff) ==
    IF calls # <<>> /\ calls[Len(calls)].prim = "set_sw"
                    /\ (calls[Len(calls)].res >= 0 \/ eff)
    THEN [sw EXCEPT ![calls[Len(calls)].a1] = calls[Len(calls)].val]
    ELSE sw

NoOtherCommand ==
    pw_pc = "idle" /\ x_pc = "idle" /\ rw.pc = "idle" /\ cmd.pc = "idle"

\* plhwtools cpld [argv]: require_cpld, then run_cpld.  cpld_get_switch
\* returns the state of the line or a negative error.
RunCpld ==
    /\ NoOtherCommand
    /\ \E argv \in CpldArgs, init_ok \in BOOLEAN, get_err \in {0, -1, -2},
          set_res \in Results, eff \in BOOLEAN, ver \in Versions :
        LET cpld == ctx["cpld"] \/ init_ok
            get_sw == [l \in CpldLines |->
                          IF get_err < 0 THEN get_err ELSE cpld_sw[l]]
            set_sw == [p \in CpldLines \X {0, 1} |-> set_res]
            r == run_cpld(cpld, argv, ver, get_sw, set_sw)
        IN  /\ ctx' = [ctx EXCEPT !["cpld"] = cpld]
            /\ hnd' = [hnd EXCEPT !.inits["cpld"] =
                          IF ~ctx["cpld"] /\ init_ok THEN @ + 1 ELSE @]
            /\ cmd' = [pc |-> "done", tool |-> "cpld", argv |-> argv,
                       ret |-> r.stat, calls |-> r.calls, log |-> r.log]
            /\ cpld_sw' = SwitchesAfter(cpld_sw, r.calls, eff)
            /\ UNCHANGED <<dac_val, dac_pow, pw_pc, pw_op, pw_step, pw_vcom,
                           pw_ret, pw_calls, pw_log, pw_out, pw_dev0,
                           pw_arg>>
            /\ UNCHANGED <<xvars, svars>>

\* Arguments tried after "max17135 timings".
TimingArgs == {<<>>, <<"seq0">>, <<"seq1">>, <<"8">>, <<"200">>, <<"256">>,
               <<"8", "2", "11", "3">>, <<"8", "-1">>,
               <<"8", "2", "11", "3", "0", "0", "0", "0">>,
               <<"3", "3", "3", "3", "3", "3", "3", "3", "256">>}

\* max17135_get_timings results tried: an error, a short read, all of them.
GetTimingsResults == {-1, 3, MAX17135_NB_TIMINGS}

set_max17135_timings_first_only(argv, get_res, set_res, char_signed) ==
    IF Len(argv) = 1 /\ get_power_seq(argv).seq # 0
    THEN [stat |-> set_res,
          calls |-> <<CmdCall("max17135_set_timings", "-", 1,
                        <<seqs[get_power_seq(argv).seq].timing[1]>>,
                        set_res)>>,
          log |-> <<>>]
    ELSE [stat |-> -1, calls |-> <<>>, log |-> <<>>]

\* set_max17135_timings(p, argc, argv): get_res and set_res are the results
\* max17135_get_timings and max17135_set_timings return.
set_max17135_timings(argv, get_res, set_res, char_signed) ==
    IF Len(argv) < 1
    THEN [stat |-> IF get_res < 0 THEN get_res
                   ELSE IF get_res # MAX17135_NB_TIMINGS THEN -1 ELSE 0,
          calls |-> <<CmdCall("max17135_get_timings", "-",
                              MAX17135_NB_TIMINGS, <<>>, get_res)>>,
          log |-> IF get_res < 0 THEN << <<"failed to get", "-">> >>
                  ELSE IF get_res # MAX17135_NB_TIMINGS
                       THEN << <<"could only read", "-">> >>
                       ELSE <<>>]
    ELSE LET r == IF Len(argv) = 1 THEN get_power_seq(argv)
                                   ELSE [seq |-> 0, log |-> <<>>]
         IN  IF r.seq # 0
             THEN LET timings == [i \in 1..MAX17135_NB_TIMINGS |->
                                     seqs[r.seq].timing[i]]
                  IN  [stat |-> set_res,
                       calls |-> <<CmdCall("max17135_set_timings", "-",
                                           MAX17135_NB_TIMINGS, timings,
                                           set_res)>>,
                       log |-> r.log \o << <<"Setting timings for",
                                             seqs[r.seq].name>> >>]
             ELSE LET n_timings == IF Len(argv) > MAX17135_NB_TIMINGS
                                   THEN MAX17135_NB_TIMINGS ELSE Len(argv)
                      t == [i \in 1..n_timings |-> atoi(argv[i])]
                  IN  IF \E i \in 1..n_timings : t[i] < 0 \/ t[i] > 255
                      THEN [stat |-> -1, calls |-> <<>>,
                            log |-> r.log \o << <<"invalid timing", "-">> >>]
                      ELSE [stat |-> set_res,
                            calls |-> <<CmdCall("max17135_set_timings", "-",
                                          n_timings,
                                          [i \in 1..n_timings |->
                                              CharConv(t[i], char_signed)],
                                          set_res)>>,
                            log |-> r.log]

\* plhwtools max17135 timings [argv]: require_max17135, run_max17135, then
\* set_max17135_timings.
RunTimings ==
    /\ NoOtherCommand
    /\ \E argv \in TimingArgs, init_ok \in BOOLEAN,
          get_res \in GetTimingsResults, set_res \in Results,
          char_signed \in BOOLEAN :
        LET max17135 == ctx["max17135"] \/ init_ok
            r == IF max17135
                 THEN set_max17135_timings(argv, get_res, set_res, char_signed)
                 ELSE [stat |-> -1, calls |-> <<>>, log |-> <<>>]
        IN  /\ ctx' = [ctx EXCEPT !["max17135"] = max17135]
            /\ hnd' = [hnd EXCEPT !.inits["max17135"] =
                          IF ~ctx["max17135"] /\ init_ok THEN @ + 1 ELSE @]
            /\ cmd' = [pc |-> "done", tool |-> "timings", argv |-> argv,
                       ret |-> r.stat, calls |-> r.calls, log |-> r.log]
            /\ UNCHANGED <<cpld_sw, dac_val, dac_pow, pw_pc, pw_op, pw_step,
                           pw_vcom, pw_ret, pw_calls, pw_log, pw_out, pw_dev0,
                           pw_arg>>
            /\ UNCHANGED <<xvars, svars>>

\* main: the clean-up after run_cmd has returned, then exit.
CmdExit ==
    /\ cmd.pc = "done"
    /\ cmd' = [pc |-> "idle", tool |-> "none", argv |-> <<>>, ret |-> 0,
               calls |-> <<>>, log |-> <<>>]
    /\ ctx' = [d \in Devices |-> FALSE]
    /\ hnd' = NoHandles
    /\ pw_dev0' = [sw |-> cpld_sw, val |-> dac_val, pow |-> dac_pow]
    /\ UNCHANGED <<cpld_sw, dac_val, dac_pow, pw_pc, pw_op, pw_step,
                   pw_vcom, pw_ret, pw_calls, pw_log, pw_out, pw_arg>>
    /\ UNCHANGED <<xvars, svars>>

NextCmd ==
    \/ RunCpld
    \/ RunTimings
    \/ CmdExit

SpecCmd == Init /\ [][NextCmd]_vars

(***************************************************************************)
(* Power sequencing: properties                                            *)
(***************************************************************************)

CpldSet(line, on) == Call("cpld_set_switch", line, on, "-")

\* The nine primitives of a power-on, as the design lists them.
ExpectedOnCalls(vcom) == <<
    CpldSet("CPLD_BPCOM_CLAMP", 1),
    CpldSet("CPLD_HVEN", 1),
    Call("max17135_wait_for_pok", "-", 0, "-"),
    CpldSet("CPLD_COM_SW_CLOSE", 0),
    CpldSet("CPLD_COM_SW_EN", 1),
    CpldSet("CPLD_COM_PSU", 1),
    Call("dac5820_output", "DAC5820_CH_A", vcom, "-"),
    Call("dac5820_set_power", "DAC5820_CH_A", 0, "DAC5820_POW_ON"),
    CpldSet("CPLD_COM_SW_CLOSE", 1) >>

\* The five primitives of a power-off, as the design lists them.
ExpectedOffCalls == <<
    CpldSet("CPLD_COM_SW_CLOSE", 0),
    CpldSet("CPLD_COM_SW_EN", 0),
    Call("dac5820_set_power", "DAC5820_CH_A", 0, "DAC5820_POW_OFF_100K"),
    CpldSet("CPLD_COM_PSU", 0),
    CpldSet("CPLD_HVEN", 0) >>

ExpectedLabels(op) ==
    IF op = "on"
    THEN <<"BPCOM clamp", "HV enable", "wait for POK", "COM open",
           "COM enable", "COM PSU on", "VCOM DAC value", "DAC power on",
           "COM close">>
    ELSE <<"COM open", "COM disable", "DAC power off", "COM PSU off",
           "HV disable">>

IsPrefix(a, b) == Len(a) <= Len(b) /\ a = SubSeq(b, 1, Len(a))

AllOk == \A i \in 1..Len(pw_out) : pw_out[i] = "ok"

\* The procedure ran its steps and returned to its caller.
Returned(op) == pw_pc = "returned" /\ pw_op = op /\ pw_step > 0

FailedSteps == {i \in 1..Len(pw_out) : pw_out[i] = "fail"}

FirstFailed == CHOOSE k \in FailedSteps : \A j \in FailedSteps : k <= j

\* C1: a power_on in which every primitive succeeds invokes exactly the nine
\* primitives clamp on, HV on, wait for POK, COM open, COM enable, COM PSU
\* on, DAC output = vcom, DAC power on, COM close, once each, in this order:
\* while it runs the calls made are a prefix of that list, and when it
\* returns they are the whole list.
C1_PowerOnOrder ==
    (pw_op = "on" /\ AllOk) =>
        /\ IsPrefix(pw_calls, ExpectedOnCalls(pw_vcom))
        /\ (Returned("on") => pw_calls = ExpectedOnCalls(pw_vcom) /\ pw_ret = 0)

C1_Witness ==
    /\ Returned("on") /\ AllOk
    /\ Len(pw_calls) = 9
    /\ pw_vcom = 255 /\ dac_val = 255

\* C2: in power_on and power_off, once the primitive of step k has reported
\* failure no primitive of a later step is invoked (the failing call stays
\* the last call), the procedure has stopped, and it returns a negative
\* result.
C2_FailFast ==
    \A k \in 1..Len(pw_out) :
        pw_out[k] = "fail" =>
            /\ k = Len(pw_calls)
            /\ pw_pc = "returned"
            /\ pw_ret < 0

C2_Witness ==
    /\ Returned("off")
    /\ Len(pw_out) = 2 /\ pw_out[1] = "ok" /\ pw_out[2] = "fail"
    /\ pw_ret = -2

\* C3: when a step of power_on or power_off fails, the log names exactly the
\* first failing step as failed, every step before it as ok, and no other
\* step; the result is a failure.  A failure at step 3 of power_on reports
\* "wait for POK" and no DAC primitive has been called.
C3_FailureLabel ==
    (pw_pc = "returned" /\ FailedSteps # {}) =>
        LET k   == FirstFailed
            lab == ExpectedLabels(pw_op)
        IN  /\ Len(pw_log) = k
            /\ \A i \in 1..(k - 1) : pw_log[i] = <<lab[i], "ok">>
            /\ pw_log[k] = <<lab[k], "failed (ERROR)">>
            /\ pw_ret < 0
            /\ (pw_op = "on" /\ k = 3) =>
                   /\ pw_log[k][1] = "wait for POK"
                   /\ \A i \in 1..Len(pw_calls) :
                          HandleOf(pw_calls[i].prim) # "dac"

C3_Witness ==
    /\ Returned("on")
    /\ FailedSteps = {3}
    /\ pw_log[3] = <<"wait for POK", "failed (ERROR)">>

\* C4: a power_off in which every primitive succeeds invokes exactly COM
\* open, COM disable, DAC power to the 100K pull-down off mode (not the
\* floating one), COM PSU off, HV off, once each, in this order.
C4_PowerOffOrder ==
    (pw_op = "off" /\ AllOk) =>
        /\ IsPrefix(pw_calls, ExpectedOffCalls)
        /\ (Returned("off") =>
               /\ pw_calls = ExpectedOffCalls
               /\ pw_ret = 0
               /\ dac_pow = "DAC5820_POW_OFF_100K"
               /\ dac_pow # "DAC5820_POW_OFF_FLOAT")

C4_Witness ==
    /\ Returned("off") /\ AllOk
    /\ Len(pw_calls) = 5
    /\ pw_dev0.pow = "DAC5820_POW_ON"

\* C5: power_off never writes the BPCOM clamp line and never invokes the
\* wait-for-POK primitive, whatever the step results: the clamp keeps the
\* state it had on entry and the PMIC handle is not even acquired.
C5_PowerOffLeavesClampAndPmic ==
    pw_op = "off" =>
        /\ \A i \in 1..Len(pw_calls) :
              /\ pw_calls[i].prim # "max17135_wait_for_pok"
              /\ ~(pw_calls[i].prim = "cpld_set_switch"
                     /\ pw_calls[i].a1 = "CPLD_BPCOM_CLAMP")
        /\ cpld_sw["CPLD_BPCOM_CLAMP"] = pw_dev0.sw["CPLD_BPCOM_CLAMP"]
        /\ ~ctx["max17135"]

C5_Witness ==
    /\ Returned("off")
    /\ Len(pw_calls) = 5
    /\ cpld_sw["CPLD_BPCOM_CLAMP"] = 1
    /\ cpld_sw["CPLD_HVEN"] = 0

\* The registers that the first n calls leave behind when each took effect.
RECURSIVE Replay(_, _, _)
Replay(dev, calls, n) ==
    IF n = 0 THEN dev
    ELSE LET d == Replay(dev, calls, n - 1)
             c == calls[n]
         IN  CASE c.prim = "cpld_set_switch" ->
                      [d EXCEPT !.sw = [@ EXCEPT ![c.a1] = c.val]]
               [] c.prim = "dac5820_output" ->
                      [d EXCEPT !.val = c.val % 256]
               [] c.prim = "dac5820_set_power" -> [d EXCEPT !.pow = c.mode]
               [] OTHER -> d

\* C6: after power_on or power_off stopped at a failing step nothing is
\* rolled back: every line and DAC register holds what the steps that
\* succeeded wrote (or its entry value when none wrote it), the register the
\* failing primitive itself was writing holds either that or the value being
\* written, and a failed POK wait leaves the clamp on and HV enabled.
C6_NoRollback ==
    (pw_pc = "returned" /\ FailedSteps # {}) =>
        LET k    == FirstFailed
            kept == Replay(pw_dev0, pw_calls, k - 1)
            part == Replay(pw_dev0, pw_calls, k)
            now  == [sw |-> cpld_sw, val |-> dac_val, pow |-> dac_pow]
        IN  /\ now \in {kept, part}
            /\ (pw_op = "on" /\ k = 3) =>
                   /\ cpld_sw["CPLD_BPCOM_CLAMP"] = 1
                   /\ cpld_sw["CPLD_HVEN"] = 1

C6_Witness ==
    /\ Returned("on")
    /\ FailedSteps = {3}
    /\ pw_dev0.sw["CPLD_HVEN"] = 0 /\ pw_dev0.sw["CPLD_BPCOM_CLAMP"] = 0
    /\ cpld_sw["CPLD_HVEN"] = 1 /\ cpld_sw["CPLD_BPCOM_CLAMP"] = 1

(***************************************************************************)
(* EEPROM transfer: properties                                             *)
(***************************************************************************)

\* No chunk I/O call failed and no write to the file was short.
AllFull ==
    \A i \in 1..Len(x_calls) :
        /\ x_calls[i].res >= 0
        /\ (x_calls[i].op = "write" => x_calls[i].res = x_calls[i].len)

\* The EEPROM offsets whose bytes reached the file, in order of arrival.
RECURSIVE SinkOffsets(_)
SinkOffsets(n) ==
    IF n = 0 THEN <<>>
    ELSE SinkOffsets(n - 1) \o [j \in 1..sink[n].len |-> sink[n].off + j - 1]

\* Bytes moved by k whole main-loop chunks of a transfer of total bytes.
ChunkBytes(k, total) == min(k * 4096, total)

\* C7: in a transfer to the file without I/O failure, when SIGINT arrives
\* between chunks after k chunks completed, exactly the bytes of those k
\* chunks have reached the file (10000-byte job, abort after 4096 bytes:
\* exactly 4096); when it arrives while a chunk is in flight that chunk is
\* completed and no later one is started.
C7_AbortBetweenChunks ==
    (x_pc = "done" /\ write_file = 1 /\ x_stop \in {"abort", "complete"}
       /\ g_abort = 1 /\ AllFull) =>
        LET k == IF sig_pc = "body" THEN sig_chunks + 1 ELSE sig_chunks
            n == ChunkBytes(k, x_opt.data_size)
        IN  /\ x_chunks <= k
            /\ SinkOffsets(Len(sink)) = [i \in 1..n |-> x_opt.skip + i - 1]

C7_Witness ==
    /\ x_pc = "done" /\ write_file = 1 /\ AllFull
    /\ x_opt.data_size = 10000
    /\ sig_pc = "loop" /\ sig_chunks = 1
    /\ Len(SinkOffsets(Len(sink))) = 4096

\* C8: a transfer that stops because the abort flag was seen set while bytes
\* remained returns a value different from the 0 of a complete transfer.
C8_AbortedDistinctFromOk ==
    (x_pc = "done" /\ x_stop = "abort") => x_ret # 0

\* C9: the abort flag is consulted before each chunk I/O, padding chunks
\* included: no EEPROM chunk write begins an iteration that started with the
\* abort flag set.
C9_NoWriteOnceAborted == x_late = FALSE

\* The bytes written to the EEPROM, in order: <<"S", i>> is byte i of the
\* input stream, <<"Z", 0>> a zero byte.
RECURSIVE WrittenBytes(_)
WrittenBytes(n) ==
    IF n = 0 THEN <<>>
    ELSE WrittenBytes(n - 1) \o
         [j \in 1..e_writes[n].len |->
             IF e_writes[n].kind = "zero" THEN <<"Z", 0>>
             ELSE <<"S", e_writes[n].from + j - 1>>]

RECURSIVE WrittenLen(_)
WrittenLen(n) == IF n = 0 THEN 0 ELSE WrittenLen(n - 1) + e_writes[n].len

\* Every write starts where the previous one ended, the first at skip.
Contiguous ==
    \A n \in 1..Len(e_writes) :
        e_writes[n].off = x_opt.skip + WrittenLen(n - 1)

\* Every read(fd) returned all the input still had, up to the request.
ReadsToEnd ==
    \A i \in 1..Len(x_calls) :
        x_calls[i].op = "read" =>
            x_calls[i].res = min(x_calls[i].len, src_len - x_calls[i].off)

\* C10: a transfer from the input stream with zero_padding, no abort and no
\* I/O failure, whose input of s <= data_size bytes is read to its end, has
\* written to the EEPROM, from skip on, exactly the s input bytes followed by
\* exactly data_size - s zero bytes (1000 input bytes into 2000: 1000 real
\* bytes, then 1000 zeros).
C10_ZeroPadding ==
    (x_pc = "done" /\ write_file = 0 /\ x_opt.zero_padding # 0
       /\ x_stop = "complete" /\ g_abort = 0 /\ AllFull /\ ReadsToEnd
       /\ src_len <= x_opt.data_size) =>
        /\ Contiguous
        /\ WrittenBytes(Len(e_writes)) =
              [i \in 1..x_opt.data_size |->
                  IF i <= src_len THEN <<"S", i - 1>> ELSE <<"Z", 0>>]

C10_Witness ==
    /\ x_pc = "done" /\ write_file = 0 /\ x_opt.zero_padding # 0
    /\ x_stop = "complete" /\ g_abort = 0 /\ AllFull /\ ReadsToEnd
    /\ src_len = 1000 /\ x_opt.data_size = 2000
    /\ WrittenLen(Len(e_writes)) = 2000
    /\ e_writes[1].len = 1000 /\ e_writes[2].kind = "zero"

\* Call i is a read(fd) that returned fewer bytes than it was asked for.
ShortRead(i) ==
    /\ x_calls[i].op = "read"
    /\ x_calls[i].res >= 0
    /\ x_calls[i].res < x_calls[i].len

\* C11: in a transfer from the input stream without zero_padding, a read that
\* returns fewer bytes than requested is followed by the EEPROM write of
\* exactly those bytes and by no other read or write; when that write
\* succeeds the EEPROM has received, from skip on, exactly the input bytes
\* read so far and the transfer returns 0.
C11_ShortReadEndsTransfer ==
    (x_pc # "idle" /\ write_file = 0 /\ x_opt.zero_padding = 0) =>
        \A i \in 1..Len(x_calls) :
            ShortRead(i) =>
                /\ Len(x_calls) = i + 1
                /\ x_calls[i + 1].op = "eeprom_write"
                /\ x_calls[i + 1].len = x_calls[i].res
                /\ x_pc \in {"loop", "done"}
                /\ x_calls[i + 1].res >= 0 =>
                      /\ left = 0
                      /\ x_ret = 0
                      /\ Contiguous
                      /\ WrittenBytes(Len(e_writes)) =
                            [j \in 1..(x_calls[i].off + x_calls[i].res) |->
                                <<"S", j - 1>>]

C11_Witness ==
    /\ x_pc = "done" /\ write_file = 0 /\ x_opt.zero_padding = 0
    /\ x_opt.data_size = 2 * buffer_size /\ src_len = buffer_size + 1
    /\ Len(x_calls) = 4 /\ ShortRead(3) /\ x_calls[3].res = 1
    /\ x_ret = 0 /\ WrittenLen(Len(e_writes)) = buffer_size + 1

\* C12: a transfer to the file that is not aborted and meets no I/O failure
\* returns 0 after exactly data_size bytes reached the file, and they are the
\* EEPROM bytes at offsets skip .. skip + data_size - 1 in that order.
C12_DeviceToSinkComplete ==
    (x_pc = "done" /\ write_file = 1 /\ g_abort = 0 /\ AllFull
       /\ x_stop \notin {"rejected", "nomem"}) =>
        /\ x_ret = 0
        /\ SinkOffsets(Len(sink)) =
              [i \in 1..x_opt.data_size |-> x_opt.skip + i - 1]

C12_Witness ==
    /\ x_pc = "done" /\ write_file = 1 /\ g_abort = 0 /\ AllFull
    /\ x_opt.skip = 16 /\ x_opt.data_size = 2 * buffer_size + 1808
    /\ Len(sink) = 3 /\ sink[3].len = 1808

IsEepromCall(c) == c.op \in {"eeprom_read", "eeprom_write"}

\* The chunk accesses made to the EEPROM, in the order they were made.
EepromCalls == SelectSeq(x_calls, IsEepromCall)

\* C13: the first EEPROM access of a transfer is at skip and every later
\* one, padding chunks included, starts exactly where the previous one ended:
\* offsets never decrease, increase strictly after every non-empty chunk, and
\* no two chunks overlap.
C13_ChunksInOrder ==
    LET cs == EepromCalls
    IN  \A n \in 1..Len(cs) :
            IF n = 1
            THEN cs[n].off = x_opt.skip
            ELSE /\ cs[n].off = cs[n - 1].off + cs[n - 1].len
                 /\ cs[n].off >= cs[n - 1].off
                 /\ (cs[n - 1].len > 0 => cs[n].off > cs[n - 1].off)

C13_Witness ==
    /\ x_pc = "done" /\ write_file = 0 /\ x_opt.skip = 16
    /\ Len(e_writes) >= 4
    /\ e_writes[1].kind = "src" /\ e_writes[1].len = buffer_size
    /\ e_writes[2].kind = "src" /\ e_writes[2].len = 1
    /\ e_writes[3].kind = "zero" /\ e_writes[3].off = 16 + buffer_size + 1
    /\ e_writes[4].off = 16 + buffer_size + 1 + N_ZEROS

\* C14: in a transfer to the file, a write(fd) that takes fewer bytes than
\* the chunk it was given makes the transfer return a failure.
C14_ShortWriteIsFailure ==
    (x_pc = "done" /\ write_file = 1) =>
        \A i \in 1..Len(x_calls) :
            (x_calls[i].op = "write" /\ x_calls[i].res < x_calls[i].len) =>
                x_ret # 0

IsOkEepromWrite(c) == c.op = "eeprom_write" /\ c.res >= 0

IsOkSinkWrite(c) == c.op = "write" /\ c.res > 0

\* C15: a read or write primitive that fails is the last call of the
\* transfer: the loop is left without another chunk, the transfer returns a
\* failure, and when it has returned every chunk moved before the failure
\* is still in place in the EEPROM or the file.
C15_FirstFailureStops ==
    /\ \A i \in 1..Len(x_calls) :
           x_calls[i].res < 0 =>
               /\ i = Len(x_calls)
               /\ x_ret = -1
               /\ x_pc \in {"loop", "done"}
    /\ x_pc = "done" =>
       LET ew == SelectSeq(x_calls, IsOkEepromWrite)
           sw == SelectSeq(x_calls, IsOkSinkWrite)
       IN  /\ Len(ew) = Len(e_writes)
           /\ \A n \in 1..Len(ew) :
                  ew[n].off = e_writes[n].off /\ ew[n].len = e_writes[n].len
           /\ Len(sw) = Len(sink)
           /\ \A n \in 1..Len(sw) :
                  sw[n].off = sink[n].off /\ sw[n].res = sink[n].len

C15_Witness ==
    /\ x_pc = "done" /\ write_file = 0 /\ x_ret = -1 /\ x_stop = "failure"
    /\ Len(x_calls) = 4 /\ x_calls[4].op = "eeprom_write"
    /\ x_calls[4].res < 0
    /\ Len(e_writes) = 1 /\ e_writes[1].len = buffer_size

\* C16: the transfer loop is only ever entered with skip + data_size within
\* the EEPROM size.
C16_RangeWithinCapacity ==
    x_pc \in {"loop", "body", "pad"} =>
        x_opt.skip + x_opt.data_size <= EepromSize

\* C17 as stated: a request whose data_size is zero is refused with a
\* failure before any chunk is moved, and no progress line is computed from a
\* total of zero.
C17_ZeroSizeRejected ==
    /\ (x_pc # "idle" /\ x_opt.given = 0) =>
           (x_pc = "done" /\ x_ret # 0 /\ x_calls = <<>>)
    /\ \A n \in 1..Len(x_prog) : x_prog[n].total # 0

\* C17: a data_size of zero is not refused: it stands for the whole EEPROM,
\* so the transfer runs with data_size equal to the EEPROM size; the loop is
\* never entered with a total of zero and every progress line is computed
\* from the non-zero data_size of the request.
C17_ZeroSizeMeansWholeEeprom ==
    /\ (x_pc # "idle" /\ x_opt.given = 0) =>
           /\ x_opt.data_size = EepromSize
           /\ x_stop # "rejected"
    /\ x_pc \in {"loop", "body", "pad"} => x_opt.data_size > 0
    /\ \A n \in 1..Len(x_prog) :
           x_prog[n].total = x_opt.data_size /\ x_prog[n].total > 0

C17_Witness ==
    /\ x_pc = "done" /\ x_opt.given = 0 /\ x_ret = 0 /\ write_file = 1
    /\ x_stop = "complete" /\ AllFull /\ g_abort = 0
    /\ Len(x_prog) = 3 /\ x_prog[3].total = EepromSize
    /\ x_prog[3].percent = 100

\* C18: every progress line shows floor(bytes * 100 / total) for its byte
\* count, a value within 0..100, and no line shows less than the line before
\* it (2500 bytes of 10000: 25).
C18_ProgressPercent ==
    \A n \in 1..Len(x_prog) :
        LET r == x_prog[n]
        IN  /\ r.percent * r.total <= r.prog * 100
            /\ r.prog * 100 < (r.percent + 1) * r.total
            /\ r.percent \in 0..100
            /\ n > 1 => /\ x_prog[n - 1].percent <= r.percent
                        /\ x_prog[n - 1].prog <= r.prog

C18_Witness ==
    /\ Len(x_prog) >= 2
    /\ x_prog[1].prog = 2500 /\ x_prog[1].total = 10000
    /\ x_prog[1].percent = 25
    /\ x_prog[Len(x_prog)].percent = 100

RECURSIVE HexValue(_)
\* The number a sequence of hexadecimal digits stands for.
HexValue(d) ==
    IF d = <<>> THEN 0
    ELSE HexValue(SubSeq(d, 1, Len(d) - 1)) * 16 + d[Len(d)]

\* The two buffers of the finished full_rw run differ at index j.
BuffersDiffer(j) == data_r(rw, j) # data_w(rw.seed, j)

\* The lowest index at which the two buffers differ.
FirstDiff ==
    CHOOSE m \in 0..(rw.size - 1) :
        BuffersDiffer(m) /\ \A k \in 0..(m - 1) : ~BuffersDiffer(k)

\* C19: the comparison of full_rw_eeprom visits the indices 0, 1, 2, ... in
\* order; when the buffers differ it ends at the lowest differing index i,
\* logs that i as the error address, returns a failure and has compared no
\* index above i; when write and read succeeded and no byte differs it has
\* compared every index and returns 0 (4096 bytes with the byte at 4000 read
\* back wrong: address 4000, 0x0FA0).
C19_FirstMismatch ==
    /\ rw.pc = "compare" => (rw.cmp_max = rw.i - 1 /\ rw.rep = <<>>)
    /\ (rw.pc = "done" /\ rw.calls # <<>>) =>
          IF \E j \in 0..(rw.size - 1) : BuffersDiffer(j)
          THEN /\ Len(rw.rep) = 1
               /\ HexValue(rw.rep[1].at) = FirstDiff
               /\ rw.i = FirstDiff
               /\ rw.cmp_max = FirstDiff
               /\ rw.ret # 0
               /\ ~rw.good
          ELSE /\ rw.rep = <<>>
               /\ rw.cmp_max = rw.size - 1
               /\ (rw.wres >= 0 /\ rw.rres >= 0) => (rw.ret = 0 /\ rw.good)

C19_Witness ==
    /\ rw.pc = "done" /\ rw.size = 4096 /\ rw.bad = {4000}
    /\ rw.wres = 0 /\ rw.rres = 0
    /\ rw.ret = -1 /\ rw.cmp_max = 4000
    /\ Len(rw.rep) = 1 /\ rw.rep[1].at = <<0, 15, 10, 0>>

\* C20: the report of a mismatch at index i gives max(0, i - 128) as the
\* start of the dump, dumps both buffers from that start, and dumps the same
\* number of bytes, at most 256, from each.
C20_DiagnosticWindow ==
    \A n \in 1..Len(rw.rep) :
        LET r == rw.rep[n]
            i == rw.i
        IN  /\ r.addr = IF i - 128 > 0 THEN i - 128 ELSE 0
            /\ HexValue(r.start) = r.addr
            /\ r.wlen = r.rlen
            /\ r.wlen <= 256
            /\ r.wlen <= rw.size

C20_Witness ==
    /\ rw.pc = "done" /\ rw.size = 4096 /\ rw.i = 4000
    /\ Len(rw.rep) = 1 /\ rw.rep[1].addr = 3872
    /\ rw.rep[1].start = <<0, 15, 2, 0>>
    /\ rw.rep[1].wlen = 256 /\ rw.rep[1].rlen = 256

\* C26: the abort flag starts clear; within a process its value changes only
\* from 0 to 1, in a step that is no step of the transfer (the signal
\* handler's), and once 1 it stays 1 until the process has exited.
C26_AbortFlagMonotonic ==
    /\ g_abort = 0
    /\ [][(g_abort' # g_abort) =>
            \/ /\ g_abort = 0 /\ g_abort' = 1
               /\ x_pc' = x_pc /\ left' = left /\ pad_left' = pad_left
               /\ x_ret' = x_ret /\ x_calls' = x_calls
            \/ x_pc = "done" /\ x_pc' = "idle"]_vars

C26_Witness ==
    /\ g_abort = 1 /\ sig_pc = "body" /\ sig_chunks = 0
    /\ x_pc = "done" /\ x_chunks = 1 /\ x_stop = "abort"

\* C30: every chunk of the main loop asks for at most 4096 bytes, every
\* padding chunk for at most 64, and no chunk reaches past the data_size
\* bytes of the transfer: the chunks of a transfer never add up to more than
\* data_size.
C30_ChunkSizes ==
    \A i \in 1..Len(x_calls) :
        LET c == x_calls[i]
        IN  /\ c.len >= 0
            /\ c.len <= buffer_size
            /\ (c.op = "eeprom_write" /\ i > 1 /\ x_calls[i - 1].op = "read")
                  => c.len = x_calls[i - 1].res
            /\ (c.op = "eeprom_write"
                  /\ (i = 1 \/ x_calls[i - 1].op # "read"))
                  => c.len <= N_ZEROS
            /\ IsEepromCall(c) =>
                  (c.off - x_opt.skip) + c.len <= x_opt.data_size

C30_Witness ==
    /\ x_pc = "done" /\ write_file = 0 /\ x_opt.data_size = 2000
    /\ src_len = 1000 /\ x_stop = "complete" /\ AllFull
    /\ Len(x_calls) = 18
    /\ x_calls[17].len = N_ZEROS /\ x_calls[18].len = 40
    /\ x_calls[18].off - x_opt.skip + 40 = 2000

(***************************************************************************)
(* Single-shot commands: properties                                        *)
(***************************************************************************)

\* The names of the cpld switch table.
TableNames == {switches[k].name : k \in 1..Len(switches)}

\* The line a table name stands for.
LineOf(name) ==
    switches[CHOOSE k \in 1..Len(switches) : switches[k].name = name].id

\* A cpld command has returned from switch_on_off: the handle was there and
\* the first argument was not "version".
SwitchCmdDone ==
    /\ cmd.pc = "done" /\ cmd.tool = "cpld" /\ ctx["cpld"]
    /\ Len(cmd.argv) >= 1 /\ cmd.argv[1] # "version"

\* How many times the command invoked primitive prim.
NbCalls(prim) ==
    Cardinality({i \in 1..Len(cmd.calls) : cmd.calls[i].prim = prim})

\* C21: switch_on_off with a name that is not in the table fails and invokes
\* neither the get nor the set primitive, with or without an on/off value;
\* the switch bank is as it was.
C21_UnknownNameNoCalls ==
    (SwitchCmdDone /\ cmd.argv[1] \notin TableNames) =>
        /\ cmd.ret < 0
        /\ NbCalls("get_sw") = 0
        /\ NbCalls("set_sw") = 0
        /\ cmd.calls = <<>>
        /\ cpld_sw = pw_dev0.sw

C21_Witness ==
    /\ SwitchCmdDone /\ cmd.argv = <<"bogus", "on">>
    /\ cmd.ret = -1 /\ cmd.calls = <<>>
    /\ cpld_sw["CPLD_HVEN"] = 0

\* C22: switch_on_off with a known name and a value: for "on" or "off" the
\* set primitive is invoked exactly once, with the line of that name and 1
\* for "on", 0 for "off", the get primitive is not invoked and the result is
\* the primitive's result; for any other value no primitive is invoked and
\* the result is a failure.
C22_SetOnceOrReject ==
    (SwitchCmdDone /\ cmd.argv[1] \in TableNames /\ Len(cmd.argv) > 1) =>
        IF cmd.argv[2] \in {"on", "off"}
        THEN /\ NbCalls("set_sw") = 1
             /\ NbCalls("get_sw") = 0
             /\ Len(cmd.calls) = 1
             /\ cmd.calls[1].a1 = LineOf(cmd.argv[1])
             /\ cmd.calls[1].val = (IF cmd.argv[2] = "on" THEN 1 ELSE 0)
             /\ cmd.ret = cmd.calls[1].res
             /\ cmd.ret >= 0 => cpld_sw[LineOf(cmd.argv[1])] = cmd.calls[1].val
        ELSE /\ cmd.calls = <<>>
             /\ cmd.ret < 0
             /\ cpld_sw = pw_dev0.sw

C22_Witness ==
    /\ SwitchCmdDone /\ cmd.argv = <<"vcom_en", "off">>
    /\ cmd.ret = 1 /\ Len(cmd.calls) = 1
    /\ cmd.calls[1] = CmdCall("set_sw", "CPLD_COM_SW_EN", 0, <<>>, 1)
    /\ pw_dev0.sw["CPLD_COM_SW_EN"] = 1
    /\ cpld_sw["CPLD_COM_SW_EN"] = 0

\* C23: switch_on_off with a known name and no value invokes the get
\* primitive exactly once, for the line of that name, and never the set
\* primitive, so the switch bank is unchanged; a negative result of the
\* primitive is the result of the operation, a non-negative one gives 0.
C23_GetOnceNeverSet ==
    (SwitchCmdDone /\ cmd.argv[1] \in TableNames /\ Len(cmd.argv) = 1) =>
        /\ NbCalls("get_sw") = 1
        /\ NbCalls("set_sw") = 0
        /\ Len(cmd.calls) = 1
        /\ cmd.calls[1].a1 = LineOf(cmd.argv[1])
        /\ cpld_sw = pw_dev0.sw
        /\ cmd.calls[1].res < 0 => cmd.ret = cmd.calls[1].res
        /\ cmd.calls[1].res >= 0 => cmd.ret = 0

C23_Witness ==
    /\ SwitchCmdDone /\ cmd.argv = <<"vcom_psu">>
    /\ cmd.calls = <<CmdCall("get_sw", "CPLD_COM_PSU", 0, <<>>, -2)>>
    /\ cmd.ret = -2
    /\ cpld_sw["CPLD_COM_PSU"] = 1

\* C29: every switch name the cpld help lists is found by the lookup: given
\* alone or with "on" or "off", and with a usable handle, the command makes
\* its one call for that line and does not fail as an unknown name.
C29_HelpNamesFound ==
    \A i \in 1..Len(help_cpld) :
        (/\ SwitchCmdDone
         /\ cmd.argv[1] = help_cpld[i]
         /\ Len(cmd.argv) > 1 => cmd.argv[2] \in {"on", "off"})
            => Len(cmd.calls) = 1

\* C28: every configured sequence has a timing profile of exactly 8
\* entries, each within 0..255; that of seq0 is 8, 2, 11, 3, 0, 0, 0, 0; and
\* the timings command given a sequence name hands all 8 entries of that
\* sequence to max17135_set_timings in one call, whose result it returns.
C28_TimingProfile ==
    /\ \A k \in 1..Len(seqs) :
          /\ Len(seqs[k].timing) = 8
          /\ \A i \in 1..8 : seqs[k].timing[i] \in 0..255
    /\ (/\ cmd.pc = "done" /\ cmd.tool = "timings" /\ ctx["max17135"]
        /\ Len(cmd.argv) = 1
        /\ \E k \in 1..Len(seqs) : seqs[k].name = cmd.argv[1])
          => /\ Len(cmd.calls) = 1
             /\ cmd.calls[1].prim = "max17135_set_timings"
             /\ cmd.calls[1].val = 8
             /\ Len(cmd.calls[1].data) = 8
             /\ \A i \in 1..8 : cmd.calls[1].data[i] \in 0..255
             /\ cmd.argv[1] = "seq0" =>
                   cmd.calls[1].data = <<8, 2, 11, 3, 0, 0, 0, 0>>
             /\ cmd.ret = cmd.calls[1].res

C28_Witness ==
    /\ cmd.pc = "done" /\ cmd.tool = "timings" /\ cmd.argv = <<"seq0">>
    /\ cmd.ret = 0
    /\ cmd.calls = <<CmdCall("max17135_set_timings", "-", 8,
                             <<8, 2, 11, 3, 0, 0, 0, 0>>, 0)>>

(***************************************************************************)
(* The power command: properties                                           *)
(***************************************************************************)

\* The power command is past run_power's on/off check.
PowerCmdRun ==
    /\ pw_pc # "idle" /\ Len(pw_arg.argv) >= 1
    /\ pw_arg.argv[1] \in {"on", "off"}

\* C24: with no sequence name the power command resolves the first
\* configured sequence, seq0; with a name it resolves the configured sequence
\* of exactly that name; for a name that no configured sequence has, nothing
\* is resolved, the command fails, and neither power_on nor power_off
\* executes a step: no primitive is called and no register changes.
C24_ResolveSequence ==
    PowerCmdRun =>
        LET name == Tail(pw_arg.argv)
        IN  IF name = <<>>
            THEN /\ pw_arg.seq = 1
                 /\ seqs[pw_arg.seq].name = "seq0"
                 /\ pw_op = pw_arg.argv[1]
            ELSE IF \E k \in 1..Len(seqs) : seqs[k].name = name[1]
            THEN /\ pw_arg.seq \in 1..Len(seqs)
                 /\ seqs[pw_arg.seq].name = name[1]
                 /\ pw_op = pw_arg.argv[1]
            ELSE /\ pw_arg.seq = 0
                 /\ pw_op = "none"
                 /\ pw_pc = "returned"
                 /\ pw_ret < 0
                 /\ pw_calls = <<>>
                 /\ pw_log = <<>>
                 /\ [sw |-> cpld_sw, val |-> dac_val, pow |-> dac_pow] = pw_dev0

C24_Witness ==
    /\ pw_pc = "returned" /\ pw_arg.argv = <<"on", "seq1">>
    /\ pw_ret = -1 /\ pw_calls = <<>>
    /\ pw_arg.log = << <<"Sequence not found", "seq1">> >>
    /\ cpld_sw["CPLD_HVEN"] = 0

\* The vcom value the caller of the power command gave, 128 when none.
CallerVcom ==
    IF Len(pw_arg.argv) > 2 THEN atoi(pw_arg.argv[3]) ELSE 128

\* C25: in a power-on whose caller gave a vcom value within 0..255, or none,
\* the 8-bit value handed to dac5820_output is that value, 128 when none was
\* given, whether plain char is signed or not; and it is the value the DAC
\* output register holds once the call has succeeded.
C25_VcomReachesDac ==
    \A i \in 1..Len(pw_calls) :
        (/\ pw_op = "on"
         /\ pw_calls[i].prim = "dac5820_output"
         /\ CallerVcom \in 0..255)
            => /\ pw_calls[i].val % 256 = CallerVcom
               /\ pw_calls[i].val \in -128..255
               /\ (i <= Len(pw_out) /\ pw_out[i] = "ok")
                     => dac_val = CallerVcom

C25_Witness ==
    /\ pw_pc = "returned" /\ pw_op = "on" /\ pw_ret = 0
    /\ pw_arg.argv = <<"on", "seq0", "200">> /\ pw_arg.char_signed
    /\ pw_vcom = -56
    /\ dac_val = 200

C33_DacHandleChecked ==
    (pw_pc # "idle" /\ pw_op \in {"on", "off"} /\ ~ctx["dac"]) =>
        /\ pw_calls = <<>>
        /\ pw_pc = "returned"
        /\ pw_ret < 0

\* Call i of the running procedure is prim(a1, val) and it succeeded.
OkCall(i, prim, a1, val) ==
    /\ pw_calls[i].prim = prim /\ pw_calls[i].a1 = a1
    /\ pw_calls[i].val = val
    /\ i <= Len(pw_out) /\ pw_out[i] = "ok"

\* C34: in a power_on, cpld_set_switch(CPLD_COM_SW_CLOSE, 1) is called only
\* after HV enable, the POK wait, COM open, COM enable, COM PSU on, the DAC
\* output write and the DAC power-on have each been called and succeeded in
\* this invocation; and the POK wait is called only after HV enable
\* succeeded.
C34_CloseAfterAllSucceeded ==
    pw_op = "on" =>
        \A i \in 1..Len(pw_calls) :
            /\ (pw_calls[i].prim = "cpld_set_switch"
                  /\ pw_calls[i].a1 = "CPLD_COM_SW_CLOSE"
                  /\ pw_calls[i].val = 1) =>
                  /\ \E j \in 1..(i - 1) :
                        OkCall(j, "cpld_set_switch", "CPLD_HVEN", 1)
                  /\ \E j \in 1..(i - 1) :
                        OkCall(j, "max17135_wait_for_pok", "-", 0)
                  /\ \E j \in 1..(i - 1) :
                        OkCall(j, "cpld_set_switch", "CPLD_COM_SW_CLOSE", 0)
                  /\ \E j \in 1..(i - 1) :
                        OkCall(j, "cpld_set_switch", "CPLD_COM_SW_EN", 1)
                  /\ \E j \in 1..(i - 1) :
                        OkCall(j, "cpld_set_switch", "CPLD_COM_PSU", 1)
                  /\ \E j \in 1..(i - 1) :
                        OkCall(j, "dac5820_output", "DAC5820_CH_A", pw_vcom)
                  /\ \E j \in 1..(i - 1) :
                        /\ pw_calls[j].prim = "dac5820_set_power"
                        /\ pw_calls[j].mode = "DAC5820_POW_ON"
                        /\ pw_out[j] = "ok"
            /\ pw_calls[i].prim = "max17135_wait_for_pok" =>
                  \E j \in 1..(i - 1) :
                      OkCall(j, "cpld_set_switch", "CPLD_HVEN", 1)

C34_Witness ==
    /\ pw_pc = "returned" /\ pw_op = "on" /\ pw_ret = -1
    /\ Len(pw_calls) = 9
    /\ pw_calls[9] = Call("cpld_set_switch", "CPLD_COM_SW_CLOSE", 1, "-")
    /\ pw_out[9] = "fail"
    /\ \A j \in 1..8 : pw_out[j] = "ok"

\* C37: a power-on command whose vcom argument is outside 0..255 is not
\* rejected: run_power logs the invalid value and calls power_on with the
\* default 128, so the steps run as for any other power-on, the DAC is
\* handed 128, and the result is that of the procedure.
C37_InvalidVcomRunsDefault ==
    (/\ pw_pc # "idle" /\ Len(pw_arg.argv) > 2 /\ pw_arg.argv[1] = "on"
     /\ pw_arg.seq # 0
     /\ (CallerVcom < 0 \/ CallerVcom > 255)) =>
        /\ pw_op = "on"
        /\ pw_arg.log = << <<"invalid vcom value", pw_arg.argv[3]>> >>
        /\ pw_vcom % 256 = 128
        /\ IsPrefix(pw_calls, ExpectedOnCalls(pw_vcom))
        /\ (pw_pc = "returned" /\ AllOk /\ ctx["cpld"] /\ ctx["max17135"]) =>
              /\ pw_ret = 0
              /\ pw_calls = ExpectedOnCalls(pw_vcom)
              /\ dac_val = 128

C37_Witness ==
    /\ pw_pc = "returned" /\ pw_op = "on" /\ pw_ret = 0
    /\ pw_arg.argv = <<"on", "seq0", "256">>
    /\ pw_arg.log = << <<"invalid vcom value", "256">> >>
    /\ Len(pw_calls) = 9 /\ AllOk
    /\ dac_val = 128

\* C32: on a mismatch, the window dumped from the written buffer and the
\* window dumped from the read-back buffer lie inside the buffers: start of
\* the window plus its length is at most the data size.
C32_WindowInsideBuffers ==
    \A n \in 1..Len(rw.rep) :
        /\ rw.rep[n].addr + rw.rep[n].wlen <= rw.size
        /\ rw.rep[n].addr + rw.rep[n].rlen <= rw.size

\* C35: full_rw_eeprom returns 0 only when the write succeeded, the read
\* succeeded and no byte differs; after a failed write the read-back is still
\* issued and the comparison still runs, and the result is a failure even
\* when the comparison finds no difference.
C35_OkOnlyIfAllSucceeded ==
    /\ (rw.pc \in {"compare", "done"} /\ rw.calls # <<>> /\ rw.wres < 0) =>
          /\ Len(rw.calls) = 4
          /\ rw.calls[3].op = "eeprom_seek" /\ rw.calls[3].off = 0
          /\ rw.calls[4].op = "eeprom_read" /\ rw.calls[4].len = rw.size
          /\ rw.ret # 0
    /\ (rw.pc = "done" /\ rw.calls # <<>>) =>
          /\ rw.cmp_max >= 0
          /\ (rw.ret = 0) =>
                /\ rw.wres >= 0
                /\ rw.rres >= 0
                /\ \A j \in 0..(rw.size - 1) : ~BuffersDiffer(j)
                /\ rw.cmp_max = rw.size - 1
          /\ (rw.wres < 0 \/ rw.rres < 0) => (rw.ret < 0 /\ ~rw.good)

C35_Witness ==
    /\ rw.pc = "done" /\ rw.size = 200 /\ rw.wres = -1 /\ rw.rres = 0
    /\ rw.bad = {} /\ rw.rep = <<>>
    /\ Len(rw.calls) = 4 /\ rw.calls[4].op = "eeprom_read"
    /\ rw.cmp_max = 199 /\ rw.ret = -1

\* C36: unless the answer to the confirmation prompt is y, eeprom full_rw
\* makes no EEPROM seek, write or read and returns a failure; whenever the
\* EEPROM has been accessed the answer was y.
C36_NoAccessUnlessConfirmed ==
    /\ (rw.pc # "idle" /\ rw.ans # "y") =>
          /\ rw.pc = "done"
          /\ rw.calls = <<>>
          /\ rw.ret < 0
    /\ rw.calls # <<>> => rw.ans = "y"

C36_Witness ==
    /\ rw.pc = "done" /\ rw.ans = "EOF" /\ rw.size = 4096
    /\ rw.calls = <<>> /\ rw.ret = -1

TermSaved ==
    /\ rw.term.tio # <<>>
    /\ rw.term.tio[1] = TioCall("tcgetattr", "save", 0)

TermCalls(fn, by) ==
    {k \in 1..Len(rw.term.tio) :
        rw.term.tio[k].fn = fn /\ rw.term.tio[k].by = by}

TermEdited ==
    \E k \in TermCalls("tcsetattr", "disable") : rw.term.tio[k].res = 0

\* C39: the terminal is never written, and never leaves state BLANK, before
\* tcgetattr of save_stdin_termios succeeded; once the answer to the prompt
\* has been read, an edited terminal (state EDITED or ERROR after
\* disable_stdin_buffering) has had a restoring tcsetattr call; whenever the
\* last restoring call succeeded the state is SAVED and the terminal has its
\* original settings, while the self-test runs and when the command has
\* returned; at exit a state other than BLANK or SAVED means that both
\* restoring calls failed.
C39_TerminalRestored ==
    /\ rw.term.state \in {"TERM_IN_BLANK", "TERM_IN_SAVED", "TERM_IN_EDITED",
                          "TERM_IN_ERROR"}
    /\ (\/ TermCalls("tcsetattr", "disable") # {}
        \/ TermCalls("tcsetattr", "restore") # {}
        \/ rw.term.tty = "raw"
        \/ rw.term.state # "TERM_IN_BLANK") => TermSaved
    /\ rw.term.tty = "raw" => TermEdited
    /\ (rw.pc # "idle" /\ TermCalls("tcsetattr", "disable") # {}) =>
          LET rs == TermCalls("tcsetattr", "restore")
              last == CHOOSE k \in rs : \A j \in rs : j <= k
          IN  /\ rs # {}
              /\ \A k \in rs : \A j \in TermCalls("tcsetattr", "disable") :
                    j < k
              /\ rw.term.tio[last].res = 0 =>
                    /\ rw.term.state = "TERM_IN_SAVED"
                    /\ rw.term.tty = "cooked"
    /\ (rw.pc # "idle" /\ TermCalls("tcsetattr", "disable") = {}) =>
          /\ rw.term.state \in {"TERM_IN_BLANK", "TERM_IN_SAVED"}
          /\ rw.term.tty = "cooked"
    /\ (rw.pc = "done" /\ rw.fin
        /\ rw.term.state \in {"TERM_IN_EDITED", "TERM_IN_ERROR"}) =>
          /\ Cardinality(TermCalls("tcsetattr", "restore")) = 2
          /\ \A k \in TermCalls("tcsetattr", "restore") :
                rw.term.tio[k].res < 0

C39_Witness ==
    /\ rw.pc = "compare" /\ rw.ans = "y"
    /\ rw.term.state = "TERM_IN_SAVED" /\ rw.term.tty = "cooked"
    /\ rw.term.tio = << TioCall("tcgetattr", "save", 0),
                        TioCall("tcgetattr", "disable", 0),
                        TioCall("tcsetattr", "disable", 0),
                        TioCall("tcsetattr", "restore", 0) >>

\* Bytes read from or written to the EEPROM so far in this transfer.
EepromMoved == e_pos - eeprom_seek(x_opt.skip)

\* C31: whenever an iteration of the transfer or of the padding prints a
\* progress line, the byte count on that line is at most the number of bytes
\* the transfer has moved when the line is printed, that is before the
\* EEPROM access of that iteration.
C31_ProgressIsMoved ==
    [][(x_pc \in {"body", "pad"} /\ Len(x_prog') = Len(x_prog) + 1) =>
          x_prog'[Len(x_prog')].prog <= EepromMoved]_vars

\* C38: every transfer that has entered rw_file_eeprom leaves it, whatever
\* the sizes, the direction, zero_padding, the read sizes, the failures and
\* the moment of the abort: an iteration of the loop ends with the remaining
\* count strictly smaller (zero included) or with a failure recorded, it
\* enters pad_eeprom with no more than the remaining count, every padding
\* iteration that continues has strictly decreased the count to pad, and
\* pad_eeprom returns into a remaining count of zero.
C38_TransferTerminates ==
    /\ [][/\ (x_pc = "body" /\ x_pc' = "loop") =>
                (left > 0 /\ ((left' < left /\ left' >= 0) \/ x_ret' < 0))
          /\ (x_pc = "body" /\ x_pc' = "pad") =>
                (pad_left' > 0 /\ pad_left' <= left)
          /\ (x_pc = "pad" /\ x_pc' = "pad" /\ x_calls' # x_calls) =>
                (pad_left' < pad_left /\ pad_left' > 0)
          /\ (x_pc = "pad" /\ x_pc' = "loop") => left' = 0
          /\ (x_pc \in {"loop", "body", "pad"} /\ x_calls' = x_calls
              /\ x_pc' # "idle") =>
                (left' <= left /\ pad_left' <= pad_left)
         ]_vars
    /\ (x_pc \in {"loop", "body", "pad"}) ~> (x_pc = "done")

C38_Witness ==
    /\ x_pc = "done" /\ x_stop = "complete" /\ write_file = 0
    /\ x_opt.zero_padding # 0 /\ x_opt.data_size = 6096 /\ src_len = 1000
    /\ g_abort = 1 /\ sig_pc = "pad"
    /\ Len(e_writes) = 81 /\ left = 0

====
